---- MODULE Spec2Model ----
(***************************************************************************)
(* Verification model of andriy-pc/finance-advisor.                        *)
(*                                                                         *)
(* Financial Snapshot Engine (advisor/service/finances_service.py) over a  *)
(* transactional store with READ COMMITTED reads and atomic commits, as    *)
(* the service consumes it through DBAsyncConnector.get_session().         *)
(*                                                                         *)
(* Specifications                                                          *)
(*  - Spec, SpecSeq: get_up_to_date_snapshot calls, overlapping or one     *)
(*    after the other, with insertions and a crash.                        *)
(*  - SpecGiven: sequential calls over a given two-transaction ledger.     *)
(*  - SpecBudget: one Budget Evaluation call over a threshold table.       *)
(*  - SpecPipeline: Categorization Pipeline calls over ingested raw        *)
(*    transactions, overlapping, with model calls that return or raise.    *)
(*  - SpecBatch, SpecBatchFair: one batch_invoke_structured call.          *)
(*  - SpecInvoke, SpecInvokeFair: overlapping invoke / invoke_structured   *)
(*    calls of one LLMService, with retries, backoff and metrics.          *)
(*  - SpecParser: LLMOutputParser.parse and parse_with_fallback over       *)
(*    bounded model outputs.                                               *)
(*  - SpecChain: one normalize-then-categorize chain over every model      *)
(*    output built from the four normalized fields.                        *)
(*  - SpecServices: pipeline calls and snapshot calls over one store.      *)
(*  - SpecBatchInvoke: one batch whose calls record their metrics.         *)
(*  - SpecIngest: bulk uploads of CSV files through CSVParser.             *)
(*  - SpecConversation: handle_message calls of the Conversation           *)
(*    Orchestrator, one after the other.                                   *)
(*                                                                         *)
(* Modelling conventions                                                   *)
(*  - Decimal amounts are integers (minor units).  Transaction i carries   *)
(*    the amount 2^(i-1), so a sum of amounts identifies the transactions  *)
(*    that were added into it.                                             *)
(*  - savings_rate is an exact fraction <<numerator, denominator>> in      *)
(*    lowest terms (denominator > 0), in percent.                          *)
(*  - a date is <<month, day>> of one fixed non-leap year; datetime        *)
(*    midnight values compare like dates.                                  *)
(*  - the snapshot record carries the attributes under the names the       *)
(*    service reads and writes (categories_spends, budgets_statuses); the  *)
(*    declarative mapping in db/db_models.py names the two JSON columns    *)
(*    category_spend / budget_status.  The store is modelled as keeping    *)
(*    what the service assigns.                                            *)
(*  - rows come back from a SELECT in primary-key order.                   *)
(*  - budget_threshold.category.name is the threshold's category name.    *)
(*  - category_confidence (0..1) is in hundredths.                         *)
(*  - estimated_cost_usd is in millionths of a dollar; a metrics entry     *)
(*    carries no timestamp and no latency.                                 *)
(*  - a text is a sequence of pieces (a JSON member, a brace, a bracket,   *)
(*    a word, a blank, a code fence); JSON values are strings.             *)
(*  - a CSV cell is a sequence of tokens, a missing cell is a marker; a    *)
(*    model output is a function on the keys it carries.                   *)
(*  - the amount and date of a pipeline row are texts until the row is     *)
(*    mapped to its NORMALIZED_TRANSACTION columns (hundredths, a date).   *)
(*  - a conversation not yet stored has conversation_id 0; ConversationStatus*)
(*    and IntentType members are named as the orchestrator names them.     *)
(***************************************************************************)
EXTENDS Integers, Sequences, FiniteSets, TLC

\* ---------------------------------------------------------------- bounds
MaxTxns == 2
NumProcs == 2
MaxCrashes == 1

\* ------------------------------------------------------ program constants
UserId == 1

DEBIT == "debit"
CREDIT == "credit"
TransactionType == {DEBIT, CREDIT}

MONTHLY == "monthly"

\* Python's None, where a value of another kind may stand.
None == "None"

\* ------------------------------------------------------------ input sets
Categories == {"Food", "Rent"}
Currencies == {"USD"}
TxnDates == {<<1, 1>>, <<1, 31>>}
Months == {1, 12}
Procs == 1..NumProcs

VARIABLES
    normalized_transactions,  \* table NORMALIZED_TRANSACTION, index = id
    snapshots,                \* table FINANCIAL_PERIOD_SNAPSHOT, set of rows
    budget_thresholds,        \* table BUDGET_THRESHOLD, set of rows
    next_snapshot_id,         \* autoincrement sequence of the snapshot table
    clock,                    \* datetime.now(), a logical clock
    pc,                       \* per invocation: position in the coroutine
    loc,                      \* per invocation: local variables
    returned,                 \* outcome of the call that ended last
    inserted_since,           \* a transaction was inserted since the unlinked
                              \* transactions were last read
    crashes,                  \* number of crashes so far
    crash_lost,               \* ids of the transactions the call that crashed
                              \* last had read
    raw_transactions,         \* table RAW_TRANSACTION, index = id
    budget_call,              \* the last calculate_budget_statuses call
    requests,                 \* batch_invoke_structured: its requests
    max_concurrent,           \* batch_invoke_structured: its max_concurrent
    semaphore,                \* value of the asyncio.Semaphore of the batch
    task,                     \* per request: the _process_one coroutine
    completed,                \* request indices, in the order they completed
    gathered,                 \* what asyncio.gather gave batch's caller
    config,                   \* LiteLLMClient.config, the LLM settings
    metrics,                  \* MetricsCollector._metrics, a list
    summary,                  \* what get_metrics_summary returned last
    invoke,                   \* per invoke_structured / invoke_raw call: the
                              \* coroutine's position and local variables
    parser,                   \* a parse_with_fallback call: arguments, result
    upload,                   \* the last bulk_upload_transactions request
    conversations,            \* table CONVERSATION, index = id
    chain,                    \* one normalize_and_categorize_single_transaction
                              \* call: the model's outputs, its result
    handling,                 \* the handle_message call: position and locals
    intent_type_mapped_handler \* IntentHandlerMapper's registry: intent types

\* Variables of the Categorization Pipeline, of a direct budget evaluation and
\* of a batch invocation, which the Snapshot Engine's steps leave alone.
batch_vars == <<requests, max_concurrent, semaphore, task, completed, gathered>>
llm_vars == <<config, metrics, summary, invoke, parser>>
front_vars == <<upload, conversations, chain, handling, intent_type_mapped_handler>>
pipeline_vars == <<raw_transactions>>
budget_vars == <<budget_call>>

vars == <<normalized_transactions, snapshots, budget_thresholds,
          next_snapshot_id, clock, pc, loc, returned, inserted_since, crashes,
          crash_lost, raw_transactions, budget_call, batch_vars, llm_vars, front_vars>>

\* ------------------------------------------------------------- utilities
RECURSIVE Pow2(_)
Pow2(n) == IF n = 0 THEN 1 ELSE 2 * Pow2(n - 1)

RECURSIVE GCD(_, _)
GCD(a, b) == IF b = 0 THEN a ELSE GCD(b, a % b)

Abs(x) == IF x < 0 THEN 0 - x ELSE x

\* Decimal quotient n / d (d > 0) as a fraction in lowest terms.
Quotient(n, d) ==
    LET g == GCD(Abs(n), d) IN <<n \div g, d \div g>>

DateLE(a, b) == a[1] < b[1] \/ (a[1] = b[1] /\ a[2] <= b[2])
DateLT(a, b) == a[1] < b[1] \/ (a[1] = b[1] /\ a[2] < b[2])

\* Number of days of a month of the (non-leap) year.
DaysInMonth(m) ==
    IF m = 2 THEN 28 ELSE IF m \in {4, 6, 9, 11} THEN 30 ELSE 31

\* Ascending sequence of the elements of a finite set of integers.
RECURSIVE SortedSeq(_)
SortedSeq(S) ==
    IF S = {} THEN <<>>
    ELSE LET m == CHOOSE x \in S : \A y \in S : x <= y
         IN <<m>> \o SortedSeq(S \ {m})

Range(s) == {s[i] : i \in DOMAIN s}

NoSnapshot == [none |-> TRUE]
NoId == 0
NoDate == <<0, 0>>
NoAmount == <<>>
SomeAmount(v) == <<v>>
NoCall == [none |-> TRUE]
\* No settings, and no parse_with_fallback call.
NoConfig == [none |-> TRUE]
NoParse == [none |-> TRUE]
NoUpload == [none |-> TRUE]
NoChain == [none |-> TRUE]
\* No handle_message call yet.
IdleHandling == [pc |-> "idle"]
NoSummary == [none |-> TRUE]

NoGather == [status |-> "pending"]

\* =========================================================================
\* Budget Evaluation Engine (advisor/service/budgets_service.py)
\* =========================================================================

\* select(BudgetThreshold).where(user_id ==, start_date <=, end_date >=,
\* is_active) ; a NULL end_date never satisfies end_date >= :end_date.
SelectBudgetThresholds(user_id, start_date, end_date) ==
    {b \in budget_thresholds :
        /\ b.user_id = user_id
        /\ DateLE(b.start_date, start_date)
        /\ b.end_date # NoDate /\ DateLE(end_date, b.end_date)
        /\ b.is_active}

\* The status of one category spend against the loaded thresholds.  Two
\* loaded thresholds of one category: the dict comprehension keeps one.
BudgetStatusOf(loaded, category_spend) ==
    LET matching == {b \in loaded : b.category = category_spend.category} IN
    IF matching = {}
    THEN [category |-> category_spend.category,
          limit_amount |-> NoAmount,
          spent_amount |-> category_spend.total_amount,
          remaining_amount |-> NoAmount,
          currency |-> category_spend.currency,
          is_overspent |-> FALSE]
    ELSE LET budget_threshold ==
                 CHOOSE b \in matching : \A o \in matching : b.id >= o.id
             remaining_amount ==
                 budget_threshold.limit_amount - category_spend.total_amount
         IN [category |-> category_spend.category,
             limit_amount |-> SomeAmount(budget_threshold.limit_amount),
             spent_amount |-> category_spend.total_amount,
             remaining_amount |-> SomeAmount(remaining_amount),
             currency |-> category_spend.currency,
             is_overspent |-> remaining_amount <= 0]

\* Line 70: the status is stored under its category; a category already in
\* the dict keeps its place and takes the new status.
PutBudgetStatus(statuses, status) ==
    IF \E i \in DOMAIN statuses : statuses[i].category = status.category
    THEN [i \in DOMAIN statuses |->
            IF statuses[i].category = status.category THEN status
            ELSE statuses[i]]
    ELSE Append(statuses, status)

\* Lines 51-70: the loop over the category spends.
RECURSIVE FoldBudgetStatuses(_, _, _)
FoldBudgetStatuses(statuses, loaded, category_spends) ==
    IF category_spends = <<>> THEN statuses
    ELSE FoldBudgetStatuses(
             PutBudgetStatus(statuses,
                             BudgetStatusOf(loaded, Head(category_spends))),
             loaded, Tail(category_spends))

calculate_budget_statuses_per_category_spends(user_id, start_date, end_date, category_spends) ==
    LET loaded == SelectBudgetThresholds(user_id, start_date, end_date) IN
    IF loaded = {} THEN <<>>
    ELSE FoldBudgetStatuses(<<>>, loaded, category_spends)

\* =========================================================================
\* Financial Snapshot Engine (advisor/service/finances_service.py)
\* =========================================================================

\* Lines 102-105: the branch taken for one unlinked transaction.
MissedOutcomeOf(transaction) ==
    IF transaction.type = CREDIT THEN transaction.amount ELSE 0

\* Mutant of MissedIncomeOf: the else branch adds nothing.
MissedIncomeOfMutant(transaction) == 0

MissedIncomeOf(transaction) ==
    IF transaction.type = CREDIT THEN 0 ELSE transaction.amount

RECURSIVE SumMissedOutcome(_)
SumMissedOutcome(transactions) ==
    IF transactions = <<>> THEN 0
    ELSE MissedOutcomeOf(Head(transactions)) + SumMissedOutcome(Tail(transactions))

RECURSIVE SumMissedIncome(_)
SumMissedIncome(transactions) ==
    IF transactions = <<>> THEN 0
    ELSE MissedIncomeOf(Head(transactions)) + SumMissedIncome(Tail(transactions))

\* Lines 107-117: one transaction folded into the category-keyed dict, which
\* keeps insertion order.
FoldCategorySpend(spends, transaction) ==
    IF \E i \in DOMAIN spends : spends[i].category = transaction.resolved_category
    THEN [i \in DOMAIN spends |->
            IF spends[i].category = transaction.resolved_category
            THEN [spends[i] EXCEPT
                    !.total_amount = @ + transaction.amount,
                    !.transaction_count = @ + 1]
            ELSE spends[i]]
    ELSE Append(spends, [category |-> transaction.resolved_category,
                         total_amount |-> transaction.amount,
                         currency |-> transaction.currency,
                         transaction_count |-> 1])

RECURSIVE FoldCategorySpends(_, _)
FoldCategorySpends(spends, transactions) ==
    IF transactions = <<>> THEN spends
    ELSE FoldCategorySpends(FoldCategorySpend(spends, Head(transactions)),
                            Tail(transactions))

\* Lines 133-135: savings_rate on the create path.
CreateSavingsRate(missed_income, missed_outcome) ==
    IF missed_income > 0 /\ (missed_income - missed_outcome) > 0
    THEN Quotient((missed_income - missed_outcome) * 100, missed_income)
    ELSE <<0, 1>>

\* Lines 152-157: savings_rate on the update path.
UpdateSavingsRate(total_income, total_outcome) ==
    IF total_income > 0
    THEN Quotient((total_income - total_outcome) * 100, total_income)
    ELSE <<0, 1>>

\* _recalculate_finance_snapshot_for_period: the snapshot object it returns.
\* `transactions` are the unlinked rows as read, `now` is datetime.now().
recalculate_finance_snapshot_for_period(user_id, start_date, end_date, financial_snapshot, transactions, now) ==
    LET category_mapped_spend_model ==
            FoldCategorySpends(
                IF financial_snapshot # NoSnapshot
                THEN financial_snapshot.categories_spends ELSE <<>>,
                transactions)
        missed_outcome == SumMissedOutcome(transactions)
        missed_income == SumMissedIncome(transactions)
        budget_statuses ==
            calculate_budget_statuses_per_category_spends(
                user_id, start_date, end_date, category_mapped_spend_model)
    IN
    IF financial_snapshot = NoSnapshot
    THEN [id |-> NoId,
          period |-> MONTHLY,
          start_date |-> start_date,
          end_date |-> end_date,
          total_income |-> missed_income,
          total_outcome |-> missed_outcome,
          savings |-> missed_income - missed_outcome,
          savings_rate |-> CreateSavingsRate(missed_income, missed_outcome),
          categories_spends |-> category_mapped_spend_model,
          budgets_statuses |-> budget_statuses,
          user_id |-> user_id,
          created_at |-> now,
          computed_at |-> now]
    ELSE LET total_income == financial_snapshot.total_income + missed_income
             total_outcome == financial_snapshot.total_outcome + missed_outcome
         IN [financial_snapshot EXCEPT
                !.total_income = total_income,
                !.total_outcome = @ + missed_outcome,
                !.savings = total_income - total_outcome,
                !.savings_rate = UpdateSavingsRate(total_income, total_outcome),
                !.computed_at = now,
                !.categories_spends = category_mapped_spend_model,
                !.budgets_statuses = budget_statuses]

\* map_db_snapshot_to_model: the fields of FinancialPeriodSnapshotModel.
map_db_snapshot_to_model(db_snapshot) ==
    [period |-> db_snapshot.period,
     start_date |-> db_snapshot.start_date,
     end_date |-> db_snapshot.end_date,
     total_income |-> db_snapshot.total_income,
     total_outcome |-> db_snapshot.total_outcome,
     savings |-> db_snapshot.savings,
     savings_rate |-> db_snapshot.savings_rate,
     categories_spends |-> db_snapshot.categories_spends,
     budgets_statuses |-> db_snapshot.budgets_statuses]

\* ------------------------------------------------------------ the store
\* Lines 39-47: the rows the snapshot SELECT matches.
SelectSnapshots(user_id, start_date, end_date) ==
    {s \in snapshots :
        /\ s.user_id = user_id
        /\ s.start_date = start_date
        /\ s.end_date = end_date}

\* Mutant of SelectUnlinked: the filter on the link (line 56) is left out.
SelectUnlinkedMutant(user_id, start_date, end_date) ==
    {i \in DOMAIN normalized_transactions :
        LET t == normalized_transactions[i] IN
        /\ t.user_id = user_id
        /\ DateLE(start_date, t.date)
        /\ DateLT(t.date, end_date)}

\* Lines 49-60: ids of the rows the unlinked-transactions SELECT matches.
SelectUnlinked(user_id, start_date, end_date) ==
    {i \in DOMAIN normalized_transactions :
        LET t == normalized_transactions[i] IN
        /\ t.user_id = user_id
        /\ DateLE(start_date, t.date)
        /\ DateLT(t.date, end_date)
        /\ t.financial_period_snapshot_id = NoId}

\* The day before a date (timedelta(days=1) subtracted).
PrevDay(d) ==
    IF d[2] > 1 THEN <<d[1], d[2] - 1>>
    ELSE <<d[1] - 1, DaysInMonth(d[1] - 1)>>

\* Line 35 and line 36.
StartDate(current_month) == <<current_month, 1>>
EndDate(current_month) == PrevDay(<<current_month + 1, 1>>)

\* The mapped columns an ORM UPDATE may carry.
SnapshotColumns ==
    {"total_income", "total_outcome", "savings", "savings_rate",
     "categories_spends", "budgets_statuses", "computed_at"}

\* session.add + flush of a loaded object: the UPDATE sets the columns whose
\* value differs from the value loaded, on the row as it is at commit.
ApplyUpdate(row, loaded, object) ==
    [c \in DOMAIN row |->
        IF c \in SnapshotColumns /\ object[c] # loaded[c]
        THEN object[c] ELSE row[c]]

\* Mutant of IsFastPath: "!= 0" for "== 0".
IsFastPathMutant(financial_snapshot, transactions_not_included) ==
    financial_snapshot # NoSnapshot /\ transactions_not_included # {}

\* Line 62: the fast-path test.
IsFastPath(financial_snapshot, transactions_not_included) ==
    financial_snapshot # NoSnapshot /\ transactions_not_included = {}

\* Mutant of PersistSnapshot: a new object is never added to the session.
PersistSnapshotMutant(loaded, object) ==
    IF loaded = NoSnapshot
    THEN snapshots
    ELSE {IF s.id = object.id THEN ApplyUpdate(s, loaded, object) ELSE s :
          s \in snapshots}

\* Lines 70-72: the snapshot table once the flushed object is committed.
PersistSnapshot(loaded, object) ==
    IF loaded = NoSnapshot
    THEN snapshots \cup {object}
    ELSE {IF s.id = object.id THEN ApplyUpdate(s, loaded, object) ELSE s :
          s \in snapshots}

\* Mutant of RollbackSnapshot: the snapshot is committed on its own, before
\* the links are written.
RollbackSnapshotMutant(loaded, object) ==
    IF loaded = NoSnapshot
    THEN snapshots \cup {object}
    ELSE {IF s.id = object.id THEN ApplyUpdate(s, loaded, object) ELSE s :
          s \in snapshots}

\* Line 69: session.begin() rolls the flushed object back when the block is
\* left without a commit.
RollbackSnapshot(loaded, object) == snapshots

IdleLoc ==
    [current_month |-> 0,
     start_date |-> NoDate,
     end_date |-> NoDate,
     loaded |-> NoSnapshot,
     financial_snapshot |-> NoSnapshot,
     transactions |-> <<>>]

NoResult == [status |-> "none", month |-> 0, path |-> "", value |-> NoSnapshot]
Returned(month, path, value) ==
    [status |-> "returned", month |-> month, path |-> path, value |-> value]
Raised(month, error) ==
    [status |-> "raised", month |-> month, path |-> error, value |-> NoSnapshot]

TxnRows(ids) == [i \in DOMAIN ids |-> normalized_transactions[ids[i]]]

\* ------------------------------------------------------------------ Init
Init ==
    /\ normalized_transactions = <<>>
    /\ snapshots = {}
    /\ budget_thresholds =
          {[id |-> 1, user_id |-> UserId, category |-> "Food",
            limit_amount |-> 2, is_active |-> TRUE,
            start_date |-> <<1, 1>>, end_date |-> <<12, 31>>]}
    /\ next_snapshot_id = 1
    /\ clock = 0
    /\ pc = [p \in Procs |-> "idle"]
    /\ loc = [p \in Procs |-> IdleLoc]
    /\ returned = NoResult
    /\ inserted_since = FALSE
    /\ crashes = 0
    /\ crash_lost = {}
    /\ raw_transactions = <<>>
    /\ budget_call = NoCall
    /\ requests = <<>>
    /\ max_concurrent = 0
    /\ semaphore = 0
    /\ task = <<>>
    /\ completed = <<>>
    /\ gathered = NoGather
    /\ config = NoConfig
    /\ metrics = <<>>
    /\ summary = NoSummary
    /\ invoke = <<>>
    /\ parser = NoParse
    /\ upload = NoUpload
    /\ conversations = <<>>
    /\ handling = IdleHandling
    /\ intent_type_mapped_handler = {}
    /\ chain = NoChain

\* --------------------------------------------------------------- actions
\* A normalized transaction is inserted (the pipeline's bulk write), not yet
\* linked to a snapshot.
InsertTransaction(type, date, category, currency) ==
    /\ Len(normalized_transactions) < MaxTxns
    /\ normalized_transactions' =
          Append(normalized_transactions,
                 [type |-> type,
                  amount |-> Pow2(Len(normalized_transactions)),
                  currency |-> currency,
                  date |-> date,
                  resolved_category |-> category,
                  user_id |-> UserId,
                  financial_period_snapshot_id |-> NoId])
    /\ inserted_since' = TRUE
    /\ UNCHANGED <<snapshots, budget_thresholds, next_snapshot_id, clock,
                   pc, loc, returned, crashes, crash_lost>>
    /\ UNCHANGED <<pipeline_vars, budget_vars, batch_vars, llm_vars, front_vars>>

\* A call ends: its outcome goes to the caller.
End(p, outcome) ==
    /\ pc' = [pc EXCEPT ![p] = "idle"]
    /\ loc' = [loc EXCEPT ![p] = IdleLoc]
    /\ returned' = outcome

\* get_up_to_date_financial_snapshot_current_month is called, lines 35-47:
\* datetime(year, 13, 1) raises ValueError; the snapshot of the period is
\* selected, and scalar_one_or_none raises MultipleResultsFound on two rows.
Begin(p, current_month) ==
    /\ pc[p] = "idle"
    /\ IF current_month + 1 > 12
       THEN End(p, Raised(current_month, "ValueError"))
       ELSE LET found == SelectSnapshots(UserId, StartDate(current_month),
                                         EndDate(current_month)) IN
            IF Cardinality(found) > 1
            THEN End(p, Raised(current_month, "MultipleResultsFound"))
            ELSE /\ pc' = [pc EXCEPT ![p] = "select_transactions"]
                 /\ loc' = [loc EXCEPT ![p] =
                               [IdleLoc EXCEPT
                                   !.current_month = current_month,
                                   !.start_date = StartDate(current_month),
                                   !.end_date = EndDate(current_month),
                                   !.loaded = IF found = {} THEN NoSnapshot
                                              ELSE CHOOSE s \in found : TRUE]]
                 /\ UNCHANGED returned
    /\ UNCHANGED <<normalized_transactions, snapshots, budget_thresholds,
                   next_snapshot_id, clock, inserted_since, crashes, crash_lost>>
    /\ UNCHANGED <<pipeline_vars, budget_vars, batch_vars, llm_vars, front_vars>>

\* Lines 49-67: the unlinked transactions of the period are read; the fast
\* path returns the snapshot as read, otherwise the snapshot is recalculated.
SelectTransactions(p) ==
    /\ pc[p] = "select_transactions"
    /\ LET ids == SelectUnlinked(UserId, loc[p].start_date, loc[p].end_date) IN
       IF IsFastPath(loc[p].loaded, ids)
       THEN /\ End(p, Returned(loc[p].current_month, "fast",
                               map_db_snapshot_to_model(loc[p].loaded)))
            /\ UNCHANGED clock
       ELSE /\ clock' = clock + 1
            /\ UNCHANGED returned
            /\ pc' = [pc EXCEPT ![p] = "write"]
            /\ loc' = [loc EXCEPT
                          ![p].transactions = SortedSeq(ids),
                          ![p].financial_snapshot =
                              recalculate_finance_snapshot_for_period(
                                  UserId, loc[p].start_date, loc[p].end_date,
                                  loc[p].loaded, TxnRows(SortedSeq(ids)), clock')]
    /\ inserted_since' = FALSE
    /\ UNCHANGED <<normalized_transactions, snapshots, budget_thresholds,
                   next_snapshot_id, crashes, crash_lost>>
    /\ UNCHANGED <<pipeline_vars, budget_vars, batch_vars, llm_vars, front_vars>>

\* The id a flushed snapshot object has: a new one takes the next value of the
\* sequence.
FlushedId(object) == IF object.id = NoId THEN next_snapshot_id ELSE object.id

\* Lines 69-80, one database transaction: the snapshot is INSERTed (new
\* object) or UPDATEd (loaded object), the links of the transactions read are
\* set to its id, both commit together, and the mapped snapshot is returned.
Write(p) ==
    /\ pc[p] = "write"
    /\ LET object == [loc[p].financial_snapshot EXCEPT
                         !.id = FlushedId(loc[p].financial_snapshot)] IN
       /\ snapshots' = PersistSnapshot(loc[p].loaded, object)
       /\ next_snapshot_id' =
             IF loc[p].loaded = NoSnapshot
             THEN next_snapshot_id + 1 ELSE next_snapshot_id
       /\ normalized_transactions' =
             [i \in DOMAIN normalized_transactions |->
                 IF i \in Range(loc[p].transactions)
                 THEN [normalized_transactions[i] EXCEPT
                          !.financial_period_snapshot_id = object.id]
                 ELSE normalized_transactions[i]]
       /\ End(p, Returned(loc[p].current_month, "recalculated",
                          map_db_snapshot_to_model(object)))
    /\ UNCHANGED <<budget_thresholds, clock, inserted_since, crashes, crash_lost>>
    /\ UNCHANGED <<pipeline_vars, budget_vars, batch_vars, llm_vars, front_vars>>

\* The process dies after the flush of line 72 and before the commit: the
\* open transaction is rolled back; a sequence value taken is not given back.
Crash(p) ==
    /\ pc[p] = "write"
    /\ crashes < MaxCrashes
    /\ crashes' = crashes + 1
    /\ next_snapshot_id' =
          IF loc[p].loaded = NoSnapshot
          THEN next_snapshot_id + 1 ELSE next_snapshot_id
    /\ crash_lost' = Range(loc[p].transactions)
    /\ snapshots' = RollbackSnapshot(loc[p].loaded,
                                     [loc[p].financial_snapshot EXCEPT
                                         !.id = FlushedId(loc[p].financial_snapshot)])
    /\ End(p, Raised(loc[p].current_month, "Crash"))
    /\ UNCHANGED <<normalized_transactions, budget_thresholds, clock,
                   inserted_since>>
    /\ UNCHANGED <<pipeline_vars, budget_vars, batch_vars, llm_vars, front_vars>>

Insert ==
    \E type \in TransactionType, date \in TxnDates,
       category \in Categories, currency \in Currencies :
        InsertTransaction(type, date, category, currency)

Next ==
    \/ Insert
    \/ \E p \in Procs, m \in Months : Begin(p, m)
    \/ \E p \in Procs : SelectTransactions(p)
    \/ \E p \in Procs : Write(p)
    \/ \E p \in Procs : Crash(p)

Spec == Init /\ [][Next]_vars

\* Sequential use: a call begins only when no other call is in progress.
BeginSeq(p, m) ==
    /\ \A q \in Procs : pc[q] = "idle"
    /\ Begin(p, m)

NextSeq ==
    \/ Insert
    \/ \E p \in Procs, m \in Months : BeginSeq(p, m)
    \/ \E p \in Procs : SelectTransactions(p)
    \/ \E p \in Procs : Write(p)
    \/ \E p \in Procs : Crash(p)

SpecSeq == Init /\ [][NextSeq]_vars

\* ------------------------------------------------ budget evaluation
\* Rows of BUDGET_THRESHOLD: of the user or of another, active or not,
\* starting with January or after its start, ending before the end of
\* January, with it, or never (end_date NULL).
Users == {1, 2}
ThresholdStartDates == {<<1, 1>>, <<1, 2>>}
ThresholdEndDates == {NoDate, <<1, 30>>, <<1, 31>>}
SpendAmounts == {1, 2, 3}

ThresholdRows(id) ==
    {[id |-> id, user_id |-> user_id, category |-> category,
      limit_amount |-> 2, is_active |-> is_active,
      start_date |-> start_date, end_date |-> end_date] :
        user_id \in Users, category \in Categories, is_active \in BOOLEAN,
        start_date \in ThresholdStartDates, end_date \in ThresholdEndDates}

CategorySpends ==
    {[category |-> category, total_amount |-> total_amount,
      currency |-> "USD", transaction_count |-> 1] :
        category \in Categories, total_amount \in SpendAmounts}

\* Lists of category spends: none, one, or two (of one category or of two).
CategorySpendLists ==
    {<<>>} \cup {<<c>> : c \in CategorySpends}
           \cup {<<c1, c2>> : c1 \in CategorySpends, c2 \in CategorySpends}

InitBudget ==
    /\ budget_thresholds \in
          {{}} \cup {{b} : b \in ThresholdRows(1)}
               \cup {{b1, b2} : b1 \in ThresholdRows(1), b2 \in ThresholdRows(2)}
    /\ normalized_transactions = <<>>
    /\ snapshots = {}
    /\ next_snapshot_id = 1
    /\ clock = 0
    /\ pc = [p \in Procs |-> "idle"]
    /\ loc = [p \in Procs |-> IdleLoc]
    /\ returned = NoResult
    /\ inserted_since = FALSE
    /\ crashes = 0
    /\ crash_lost = {}
    /\ raw_transactions = <<>>
    /\ budget_call = NoCall
    /\ requests = <<>>
    /\ max_concurrent = 0
    /\ semaphore = 0
    /\ task = <<>>
    /\ completed = <<>>
    /\ gathered = NoGather
    /\ config = NoConfig
    /\ metrics = <<>>
    /\ summary = NoSummary
    /\ invoke = <<>>
    /\ parser = NoParse
    /\ upload = NoUpload
    /\ conversations = <<>>
    /\ handling = IdleHandling
    /\ intent_type_mapped_handler = {}
    /\ chain = NoChain

\* calculate_budget_statuses_per_category_spends is called for January (one
\* call is observed: a call reads the thresholds and changes nothing).
CalculateBudgetStatuses(user_id, category_spends) ==
    /\ budget_call = NoCall
    /\ budget_call' =
          [user_id |-> user_id,
           start_date |-> StartDate(1),
           end_date |-> EndDate(1),
           category_spends |-> category_spends,
           result |-> calculate_budget_statuses_per_category_spends(
                          user_id, StartDate(1), EndDate(1), category_spends)]
    /\ UNCHANGED <<normalized_transactions, snapshots, budget_thresholds,
                   next_snapshot_id, clock, pc, loc, returned, inserted_since,
                   crashes, crash_lost, pipeline_vars, batch_vars,
                   llm_vars, front_vars>>

NextBudget ==
    \E user_id \in Users, category_spends \in CategorySpendLists :
        CalculateBudgetStatuses(user_id, category_spends)

SpecBudget == InitBudget /\ [][NextBudget]_vars

\* =========================================================================
\* Categorization Pipeline (advisor/service/transactions_service.py)
\* =========================================================================
MaxRaw == 2

UNKNOWN == "unknown"

\* What the categorization call may answer: a category of the vocabulary or a
\* suggested one, with a confidence between 0 and 1 (in hundredths).
PredictedCategories == {"Food", "Travel_MISSING"}
Confidences == {0, 100}

\* Rows of RAW_TRANSACTION as ingested.
RawRows ==
    [user_id : Users, type : {DEBIT}, raw_category : {"groceries"},
     amount : {"100.50"}, date : {"2023-01-02"}, currency : {"EUR"}]

RECURSIVE SeqsUpTo(_, _)
SeqsUpTo(S, n) ==
    IF n = 0 THEN {<<>>}
    ELSE LET shorter == SeqsUpTo(S, n - 1)
         IN shorter \cup {Append(q, x) : q \in {r \in shorter : Len(r) = n - 1}, x \in S}

\* Variables the pipeline's steps leave alone.
engine_vars == <<snapshots, budget_thresholds, next_snapshot_id, clock,
                 inserted_since, crashes, crash_lost>>

\* Lines 34-38: RAW_TRANSACTION outer-joined to NORMALIZED_TRANSACTION, the
\* user's rows with no normalized row.  The mutant leaves the IS NULL test out.
get_user_raw_transactions_mutant(user_id) ==
    {r \in DOMAIN raw_transactions : raw_transactions[r].user_id = user_id}

get_user_raw_transactions(user_id) ==
    {r \in DOMAIN raw_transactions :
        /\ raw_transactions[r].user_id = user_id
        /\ ~\E n \in DOMAIN normalized_transactions :
              normalized_transactions[n].raw_transaction_id = r}

\* Line 44, "if not raw_transactions"; the mutant never takes the early return.
IsNothingToNormalizeMutant(raw) == FALSE

IsNothingToNormalize(raw) == raw = {}

\* category_service.get_user_categories(user_id, global_fallback=True): the
\* user's category names, or the global ones when the user has none.
get_user_categories(user_id, global_fallback) ==
    LET categories == IF user_id = UserId THEN <<"Food", "Rent">> ELSE <<>>
    IN IF categories = <<>> /\ global_fallback
       THEN <<"Food", "Rent", "Other">> ELSE categories

\* What a model call's JSON output may hold for a field: null or a value;
\* the output is a function on the keys it has.  Today is date.today().
Null == "null"
Today == "today"

\* data_models.py lines 46-57: RawTransactionModel validated from a JSON
\* output.  amount and date default to None; currency and raw_category are
\* declared "str | None" without a default, so the key must be there (null
\* is accepted).  id, type, source and raw_data are taken as supplied.
RawTransactionFields == {"amount", "date", "currency", "raw_category"}
RequiredFields == {"currency", "raw_category"}

FieldOf(output, key) ==
    IF key \in DOMAIN output /\ output[key] # Null THEN output[key] ELSE None

RawTransactionModel(type, output) ==
    IF RequiredFields \subseteq DOMAIN output
    THEN [status |-> "returned",
          value |-> [type |-> type,
                     amount |-> FieldOf(output, "amount"),
                     date |-> FieldOf(output, "date"),
                     currency |-> FieldOf(output, "currency"),
                     raw_category |-> FieldOf(output, "raw_category")]]
    ELSE [status |-> "raised", error |-> "ValidationError"]

\* Lines 103-117 and 81-82: the NormalizedTransactionModel built from the
\* normalized transaction and the categorization result, stamped with the raw
\* row's id and user_id.  The mutant resolves to the raw category.
NormalizedTransactionModelMutant(normalized, categorization_result, raw_id) ==
    [type |-> normalized.type,
     amount |-> IF normalized.amount # None THEN normalized.amount ELSE "0.0",
     date |-> IF normalized.date # None THEN normalized.date ELSE Today,
     currency |-> IF normalized.currency # None THEN normalized.currency ELSE "USD",
     raw_category |-> IF normalized.raw_category # None THEN normalized.raw_category ELSE "",
     predicted_category |-> categorization_result.predicted_category,
     category_confidence |-> categorization_result.category_confidence,
     resolved_category |-> normalized.raw_category,
     recurrence_status |-> UNKNOWN,
     user_id |-> raw_transactions[raw_id].user_id,
     raw_transaction_id |-> raw_id,
     financial_period_snapshot_id |-> NoId]

NormalizedTransactionModel(normalized, categorization_result, raw_id) ==
    [type |-> normalized.type,
     amount |-> IF normalized.amount # None THEN normalized.amount ELSE "0.0",
     date |-> IF normalized.date # None THEN normalized.date ELSE Today,
     currency |-> IF normalized.currency # None THEN normalized.currency ELSE "USD",
     raw_category |-> IF normalized.raw_category # None THEN normalized.raw_category ELSE "",
     predicted_category |-> categorization_result.predicted_category,
     category_confidence |-> categorization_result.category_confidence,
     resolved_category |-> categorization_result.predicted_category,
     recurrence_status |-> UNKNOWN,
     user_id |-> raw_transactions[raw_id].user_id,
     raw_transaction_id |-> raw_id,
     financial_period_snapshot_id |-> NoId]

NoValue == [none |-> TRUE]

\* Lines 124-127: the NORMALIZED_TRANSACTION row of a model: the amount as a
\* number (in hundredths) and the date as a date.
DecimalOf == ("100.50" :> 10050) @@ ("20.00" :> 2000) @@ ("0.0" :> 0)
DateOf == ("2023-01-02" :> <<1, 2>>) @@ (Today :> <<1, 1>>)

map_normalized_transaction_to_db_model(model) ==
    [model EXCEPT !.amount = DecimalOf[model.amount], !.date = DateOf[model.date]]

\* Lines 59-63: the rows of the results of the tasks that did not raise, in
\* task order.  The mutant stops at the first exception.
RECURSIVE CollectResultsMutant(_)
CollectResultsMutant(tasks) ==
    IF tasks = <<>> \/ Head(tasks).pc = "raised" THEN <<>>
    ELSE <<map_normalized_transaction_to_db_model(Head(tasks).value)>>
             \o CollectResultsMutant(Tail(tasks))

RECURSIVE CollectResults(_)
CollectResults(tasks) ==
    IF tasks = <<>> THEN <<>>
    ELSE (IF Head(tasks).pc = "raised" THEN <<>>
          ELSE <<map_normalized_transaction_to_db_model(Head(tasks).value)>>)
             \o CollectResults(Tail(tasks))

\* Lines 68-69: the tables after session.add_all(categorized_transactions)
\* has committed: the rows are inserted into NORMALIZED_TRANSACTION.  The
\* mutant also rewrites the raw category of the raw rows they came from.
AddAllCommitMutant(raw, normalized, categorized_transactions) ==
    [raw_transactions |->
         [r \in DOMAIN raw |->
             IF \E i \in DOMAIN categorized_transactions :
                   categorized_transactions[i].raw_transaction_id = r
             THEN [raw[r] EXCEPT !.raw_category = "normalized"] ELSE raw[r]],
     normalized_transactions |-> normalized \o categorized_transactions]

AddAllCommit(raw, normalized, categorized_transactions) ==
    [raw_transactions |-> raw,
     normalized_transactions |-> normalized \o categorized_transactions]

\* The unique constraint on NORMALIZED_TRANSACTION.raw_transaction_id refuses
\* the bulk insert of these rows.  The mutant has no constraint against the
\* rows already stored.
ViolatesUniqueMutant(rows) ==
    \E i, j \in DOMAIN rows :
        i # j /\ rows[i].raw_transaction_id = rows[j].raw_transaction_id

ViolatesUnique(rows) ==
    \/ \E i \in DOMAIN rows, n \in DOMAIN normalized_transactions :
          normalized_transactions[n].raw_transaction_id = rows[i].raw_transaction_id
    \/ \E i, j \in DOMAIN rows :
          i # j /\ rows[i].raw_transaction_id = rows[j].raw_transaction_id

PipelineLoc(user_id) ==
    [user_id |-> user_id, raw_transactions |-> <<>>, categories |-> <<>>,
     tasks |-> <<>>]

\* The raw transactions are ingested before the pipeline runs; no normalized
\* transaction exists yet.
InitPipeline ==
    /\ raw_transactions \in SeqsUpTo(RawRows, MaxRaw)
    /\ normalized_transactions = <<>>
    /\ snapshots = {}
    /\ budget_thresholds = {}
    /\ next_snapshot_id = 1
    /\ clock = 0
    /\ pc = [p \in Procs |-> "idle"]
    /\ loc = [p \in Procs |-> IdleLoc]
    /\ returned = NoResult
    /\ inserted_since = FALSE
    /\ crashes = 0
    /\ crash_lost = {}
    /\ budget_call = NoCall
    /\ requests = <<>>
    /\ max_concurrent = 0
    /\ semaphore = 0
    /\ task = <<>>
    /\ completed = <<>>
    /\ gathered = NoGather
    /\ config = NoConfig
    /\ metrics = <<>>
    /\ summary = NoSummary
    /\ invoke = <<>>
    /\ parser = NoParse
    /\ upload = NoUpload
    /\ conversations = <<>>
    /\ handling = IdleHandling
    /\ intent_type_mapped_handler = {}
    /\ chain = NoChain

\* normalize_and_categorize_raw_transactions(user_id) is called.
BeginPipeline(p, user_id) ==
    /\ pc[p] = "idle"
    /\ pc' = [pc EXCEPT ![p] = "get_raw"]
    /\ loc' = [loc EXCEPT ![p] = PipelineLoc(user_id)]
    /\ UNCHANGED <<normalized_transactions, returned, raw_transactions,
                   engine_vars, budget_vars, batch_vars, llm_vars, front_vars>>

\* Lines 42-46: the raw transactions lacking a normalized one are fetched;
\* with none, 0 is returned.
GetUserRawTransactions(p) ==
    /\ pc[p] = "get_raw"
    /\ LET raw == get_user_raw_transactions(loc[p].user_id) IN
       IF IsNothingToNormalize(raw)
       THEN End(p, Returned(0, "nothing to normalize", 0))
       ELSE /\ pc' = [pc EXCEPT ![p] = "get_categories"]
            /\ loc' = [loc EXCEPT ![p].raw_transactions = SortedSeq(raw)]
            /\ UNCHANGED returned
    /\ UNCHANGED <<normalized_transactions, raw_transactions, engine_vars,
                   budget_vars, batch_vars, llm_vars, front_vars>>

\* Lines 48-56: the category vocabulary is fetched and one task per raw
\* transaction is created.
GetUserCategories(p) ==
    /\ pc[p] = "get_categories"
    /\ pc' = [pc EXCEPT ![p] = "gather"]
    /\ loc' = [loc EXCEPT
                  ![p].categories = get_user_categories(loc[p].user_id, TRUE),
                  ![p].tasks = [i \in DOMAIN loc[p].raw_transactions |->
                                   [pc |-> "normalize", value |-> NoValue,
                                    calls |-> <<>>]]]
    /\ UNCHANGED <<normalized_transactions, returned, raw_transactions,
                   engine_vars, budget_vars, batch_vars, llm_vars, front_vars>>

\* What the normalization call may answer for a raw transaction: every field
\* as ingested, the four optional ones null, or an object without currency.
RawDump(raw) ==
    [type |-> raw.type, amount |-> raw.amount, date |-> raw.date,
     currency |-> raw.currency, raw_category |-> raw.raw_category]
Echo(raw) ==
    [amount |-> raw.amount, date |-> raw.date, currency |-> raw.currency,
     raw_category |-> raw.raw_category]
NormalizationOutputs(raw) ==
    {Echo(raw),
     [amount |-> Null, date |-> Null, currency |-> Null, raw_category |-> Null],
     [amount |-> raw.amount, date |-> raw.date, raw_category |-> raw.raw_category]}

\* Line 78, task t over raw transaction raw: the normalization call is made
\* with the raw transaction's dump; it raises (the provider fails, or the
\* output does not validate), and so does the task, or it returns the
\* validated model and the task goes on to line 79.  The mutant goes on to
\* line 79 with the raw transaction when the call raised.
NormalizeMutant(t, raw, raises, output) ==
    LET normalized == RawTransactionModel(raw.type, output)
        failed == raises \/ normalized.status = "raised"
        call == [prompt_key |-> "normalize_transaction_user",
                 transaction |-> RawDump(raw),
                 outcome |-> IF failed THEN "raised" ELSE "returned"]
    IN [pc |-> "categorize",
        value |-> IF failed THEN RawDump(raw) ELSE normalized.value,
        calls |-> Append(t.calls, call)]

Normalize(t, raw, raises, output) ==
    LET normalized == RawTransactionModel(raw.type, output)
        failed == raises \/ normalized.status = "raised"
        call == [prompt_key |-> "normalize_transaction_user",
                 transaction |-> RawDump(raw),
                 outcome |-> IF failed THEN "raised" ELSE "returned"]
    IN IF failed
       THEN [pc |-> "raised", value |-> NoValue, calls |-> Append(t.calls, call)]
       ELSE [pc |-> "categorize", value |-> normalized.value,
             calls |-> Append(t.calls, call)]

NormalizeTransaction(p, i, raises, output) ==
    /\ pc[p] = "gather"
    /\ i \in DOMAIN loc[p].tasks
    /\ loc[p].tasks[i].pc = "normalize"
    /\ output \in NormalizationOutputs(raw_transactions[loc[p].raw_transactions[i]])
    /\ loc' = [loc EXCEPT ![p].tasks[i] =
                  Normalize(loc[p].tasks[i], raw_transactions[loc[p].raw_transactions[i]],
                            raises, output)]
    /\ UNCHANGED <<pc, normalized_transactions, returned, raw_transactions,
                   engine_vars, budget_vars, batch_vars, llm_vars, front_vars>>

\* Lines 79-83: the categorization call of task i is made with the
\* normalized transaction's dump; it returns a result, from which the
\* stamped NormalizedTransactionModel is built, or raises.
CategorizeTransaction(p, i, raises, predicted_category, category_confidence) ==
    /\ pc[p] = "gather"
    /\ i \in DOMAIN loc[p].tasks
    /\ loc[p].tasks[i].pc = "categorize"
    /\ LET call == [prompt_key |-> "categorize_transaction_user",
                    transaction |-> loc[p].tasks[i].value,
                    outcome |-> IF raises THEN "raised" ELSE "returned"]
       IN loc' = [loc EXCEPT ![p].tasks[i] =
                  IF raises
                  THEN [pc |-> "raised", value |-> NoValue,
                        calls |-> Append(loc[p].tasks[i].calls, call)]
                  ELSE [pc |-> "returned",
                        value |-> NormalizedTransactionModel(
                                      loc[p].tasks[i].value,
                                      [predicted_category |-> predicted_category,
                                       category_confidence |-> category_confidence],
                                      loc[p].raw_transactions[i]),
                        calls |-> Append(loc[p].tasks[i].calls, call)]]
    /\ UNCHANGED <<pc, normalized_transactions, returned, raw_transactions,
                   engine_vars, budget_vars, batch_vars, llm_vars, front_vars>>

\* Lines 58-71: gather has every task's outcome; the results of the tasks
\* that did not raise are inserted in one transaction and counted.  The
\* insert fails as a whole on the unique constraint.
AddAll(p) ==
    /\ pc[p] = "gather"
    /\ \A i \in DOMAIN loc[p].tasks : loc[p].tasks[i].pc \in {"returned", "raised"}
    /\ LET categorized_transactions == CollectResults(loc[p].tasks)
           committed == AddAllCommit(raw_transactions, normalized_transactions,
                                     categorized_transactions)
       IN IF ViolatesUnique(categorized_transactions)
          THEN /\ End(p, Raised(0, "IntegrityError"))
               /\ UNCHANGED <<normalized_transactions, raw_transactions>>
          ELSE /\ normalized_transactions' = committed.normalized_transactions
               /\ raw_transactions' = committed.raw_transactions
               /\ End(p, Returned(0, "normalized", Len(categorized_transactions)))
    /\ UNCHANGED <<engine_vars, budget_vars, batch_vars, llm_vars, front_vars>>

NextPipeline ==
    \/ \E p \in Procs, user_id \in Users : BeginPipeline(p, user_id)
    \/ \E p \in Procs : GetUserRawTransactions(p)
    \/ \E p \in Procs : GetUserCategories(p)
    \/ \E p \in Procs, i \in 1..MaxRaw, raises \in BOOLEAN,
          output \in UNION {NormalizationOutputs(raw) : raw \in RawRows} :
          NormalizeTransaction(p, i, raises, output)
    \/ \E p \in Procs, i \in 1..MaxRaw, raises \in BOOLEAN,
          predicted_category \in PredictedCategories,
          category_confidence \in Confidences :
          CategorizeTransaction(p, i, raises, predicted_category, category_confidence)
    \/ \E p \in Procs : AddAll(p)

SpecPipeline == InitPipeline /\ [][NextPipeline]_vars

\* The pipeline and the Snapshot Engine over one store: invocation 1 runs
\* pipeline calls and invocation 2 snapshot calls for January.
NextServices ==
    \/ \E user_id \in Users : BeginPipeline(1, user_id)
    \/ GetUserRawTransactions(1)
    \/ GetUserCategories(1)
    \/ \E i \in 1..MaxRaw, raises \in BOOLEAN,
          output \in UNION {NormalizationOutputs(raw) : raw \in RawRows} :
          NormalizeTransaction(1, i, raises, output)
    \/ \E i \in 1..MaxRaw, raises \in BOOLEAN,
          predicted_category \in PredictedCategories,
          category_confidence \in Confidences :
          CategorizeTransaction(1, i, raises, predicted_category, category_confidence)
    \/ AddAll(1)
    \/ Begin(2, 1)
    \/ SelectTransactions(2)
    \/ Write(2)
    \/ Crash(2)

SpecServices == InitPipeline /\ [][NextServices]_vars

\* ------------------------------------------- one chain, any model output
\* The values the normalization call's output may give each field.
FieldValues ==
    [amount |-> {Null, "20.00"}, date |-> {Null, "2023-01-02"},
     currency |-> {Null, "EUR"}, raw_category |-> {Null, "Groceries"}]

\* Every JSON object over a subset of the four fields.
ModelOutputs ==
    UNION {{output \in [keys -> {Null, "20.00", "2023-01-02", "EUR", "Groceries"}] :
               \A key \in keys : output[key] \in FieldValues[key]} :
           keys \in SUBSET RawTransactionFields}

chain_frame == <<upload, conversations, handling, intent_type_mapped_handler, llm_vars, batch_vars, raw_transactions,
                 normalized_transactions, pc, loc, returned, engine_vars, budget_vars>>

\* One raw transaction and the outputs the two model calls will give.
InitChain ==
    /\ \E output \in ModelOutputs, predicted_category \in PredictedCategories,
          category_confidence \in Confidences :
          chain = [output |-> output,
                   categorization_result |->
                       [predicted_category |-> predicted_category,
                        category_confidence |-> category_confidence],
                   result |-> NoValue]
    /\ raw_transactions \in {<<raw>> : raw \in RawRows}
    /\ upload = NoUpload
    /\ conversations = <<>>
    /\ handling = IdleHandling
    /\ intent_type_mapped_handler = {}
    /\ config = NoConfig
    /\ metrics = <<>>
    /\ summary = NoSummary
    /\ invoke = <<>>
    /\ parser = NoParse
    /\ requests = <<>>
    /\ max_concurrent = 0
    /\ semaphore = 0
    /\ task = <<>>
    /\ completed = <<>>
    /\ gathered = NoGather
    /\ normalized_transactions = <<>>
    /\ snapshots = {}
    /\ budget_thresholds = {}
    /\ next_snapshot_id = 1
    /\ clock = 0
    /\ pc = [p \in Procs |-> "idle"]
    /\ loc = [p \in Procs |-> IdleLoc]
    /\ returned = NoResult
    /\ inserted_since = FALSE
    /\ crashes = 0
    /\ crash_lost = {}
    /\ budget_call = NoCall

\* Lines 73-83 with lines 85-117, for raw transaction 1.
NormalizeAndCategorizeSingleTransaction ==
    /\ chain.result = NoValue
    /\ LET normalized == RawTransactionModel(raw_transactions[1].type, chain.output)
       IN chain' = [chain EXCEPT !.result =
                       IF normalized.status = "raised" THEN normalized
                       ELSE [status |-> "returned",
                             value |-> NormalizedTransactionModel(
                                           normalized.value,
                                           chain.categorization_result, 1)]]
    /\ UNCHANGED chain_frame

NextChain == NormalizeAndCategorizeSingleTransaction

SpecChain == InitChain /\ [][NextChain]_vars

\* =========================================================================
\* Orchestration Service, batch entry point (advisor/llm/llm_service.py)
\* =========================================================================
MaxRequests == 3
MaxConcurrent == 2

\* A request names its prompt; the response to it says what it answers.
PromptKeys == {"normalize_transaction_user", "categorize_transaction_user"}
Requests == [prompt_key : PromptKeys]
ResponseOf(req) == [response_to |-> req.prompt_key]

\* Variables the batch's steps leave alone.
service_vars == <<normalized_transactions, pc, loc, returned, engine_vars,
                  pipeline_vars, budget_vars, llm_vars, front_vars>>

\* Line 182, "async with semaphore": the semaphore lets a task in while its
\* value is positive.  The mutant lets every task in.
CanAcquireMutant(value) == TRUE

CanAcquire(value) == value > 0

\* Line 191: gather's result list follows the order of its arguments.  The
\* mutant lists the results in the order the tasks completed.
GatherResultsMutant(tasks, completion_order) ==
    [k \in DOMAIN completion_order |-> tasks[completion_order[k]].result]

GatherResults(tasks, completion_order) ==
    [i \in DOMAIN tasks |-> tasks[i].result]

\* batch_invoke_structured(requests, response_model, max_concurrent) is
\* called, lines 179-191: the semaphore is created and one _process_one
\* coroutine per request is handed to gather.
InitBatch ==
    /\ requests \in SeqsUpTo(Requests, MaxRequests)
    /\ max_concurrent \in 1..MaxConcurrent
    /\ semaphore = max_concurrent
    /\ task = [i \in DOMAIN requests |->
                  [pc |-> "waiting", invocations |-> 0, result |-> NoValue]]
    /\ completed = <<>>
    /\ gathered = NoGather
    /\ normalized_transactions = <<>>
    /\ snapshots = {}
    /\ budget_thresholds = {}
    /\ next_snapshot_id = 1
    /\ clock = 0
    /\ pc = [p \in Procs |-> "idle"]
    /\ loc = [p \in Procs |-> IdleLoc]
    /\ returned = NoResult
    /\ inserted_since = FALSE
    /\ crashes = 0
    /\ crash_lost = {}
    /\ raw_transactions = <<>>
    /\ budget_call = NoCall
    /\ config = NoConfig
    /\ metrics = <<>>
    /\ summary = NoSummary
    /\ invoke = <<>>
    /\ parser = NoParse
    /\ upload = NoUpload
    /\ conversations = <<>>
    /\ handling = IdleHandling
    /\ intent_type_mapped_handler = {}
    /\ chain = NoChain

\* Lines 182-183: task i enters the semaphore and starts invoke_structured.
Acquire(i) ==
    /\ i \in DOMAIN task
    /\ task[i].pc = "waiting"
    /\ CanAcquire(semaphore)
    /\ semaphore' = semaphore - 1
    /\ task' = [task EXCEPT ![i].pc = "invoking", ![i].invocations = @ + 1]
    /\ UNCHANGED <<requests, max_concurrent, completed, gathered, service_vars>>

\* Lines 183-188: invoke_structured of task i returns its result or raises,
\* and the task leaves the semaphore.
Complete(i, raises) ==
    /\ i \in DOMAIN task
    /\ task[i].pc = "invoking"
    /\ semaphore' = semaphore + 1
    /\ task' = [task EXCEPT
                   ![i].pc = IF raises THEN "raised" ELSE "returned",
                   ![i].result = IF raises THEN NoValue ELSE ResponseOf(requests[i])]
    /\ completed' = Append(completed, i)
    /\ UNCHANGED <<requests, max_concurrent, gathered, service_vars>>

\* Line 191, return_exceptions=False: the request whose exception gather
\* raises is the one that failed first.
FirstRaised(tasks, completion_order) ==
    LET k == CHOOSE k \in DOMAIN completion_order :
                 /\ tasks[completion_order[k]].pc = "raised"
                 /\ \A j \in 1..(k - 1) : tasks[completion_order[j]].pc # "raised"
    IN completion_order[k]

\* What gather hands to the caller of batch_invoke_structured.  The mutant is
\* gather(return_exceptions=True) told apart from a failure by nothing: a
\* list comes back with holes where requests failed.
GatherOutcomeMutant(tasks, completion_order) ==
    [status |-> "returned", value |-> GatherResults(tasks, completion_order)]

GatherOutcome(tasks, completion_order) ==
    IF \E i \in DOMAIN tasks : tasks[i].pc = "raised"
    THEN [status |-> "raised", error |-> FirstRaised(tasks, completion_order)]
    ELSE [status |-> "returned", value |-> GatherResults(tasks, completion_order)]

\* Line 191, return_exceptions=False: with every task returned gather gives
\* the list of results; the first exception of a task is raised to the caller
\* at once, while the other tasks go on.
Gather ==
    /\ gathered = NoGather
    /\ \/ \E i \in DOMAIN task : task[i].pc = "raised"
       \/ \A i \in DOMAIN task : task[i].pc = "returned"
    /\ gathered' = GatherOutcome(task, completed)
    /\ UNCHANGED <<requests, max_concurrent, semaphore, task, completed,
                   service_vars>>

NextBatch ==
    \/ \E i \in 1..MaxRequests : Acquire(i)
    \/ \E i \in 1..MaxRequests, raises \in BOOLEAN : Complete(i, raises)
    \/ Gather

SpecBatch == InitBatch /\ [][NextBatch]_vars

\* The event loop runs every task that can run and every call to the
\* provider ends.
SpecBatchFair == SpecBatch /\ WF_vars(NextBatch)

\* ---------------------------------------------------- a given ledger
\* Amounts (in cents) and dates of the transactions of a given ledger.
GivenAmounts == {10050, 2000}
GivenDates == {<<1, 1>>, <<1, 2>>}

\* A normalized transaction row as the engine reads it, not yet linked.
GivenTransaction(type, amount, date, category) ==
    [type |-> type,
     amount |-> amount,
     currency |-> "USD",
     date |-> date,
     resolved_category |-> category,
     user_id |-> UserId,
     financial_period_snapshot_id |-> NoId]

GivenTransactions ==
    {GivenTransaction(type, amount, date, category) :
        type \in TransactionType, amount \in GivenAmounts,
        date \in GivenDates, category \in Categories}

\* The user's only normalized transactions are two given ones; no snapshot.
InitGiven ==
    /\ normalized_transactions \in
          {<<t1, t2>> : t1 \in GivenTransactions, t2 \in GivenTransactions}
    /\ snapshots = {}
    /\ budget_thresholds =
          {[id |-> 1, user_id |-> UserId, category |-> "Food",
            limit_amount |-> 2, is_active |-> TRUE,
            start_date |-> <<1, 1>>, end_date |-> <<12, 31>>]}
    /\ next_snapshot_id = 1
    /\ clock = 0
    /\ pc = [p \in Procs |-> "idle"]
    /\ loc = [p \in Procs |-> IdleLoc]
    /\ returned = NoResult
    /\ inserted_since = FALSE
    /\ crashes = 0
    /\ crash_lost = {}
    /\ raw_transactions = <<>>
    /\ budget_call = NoCall
    /\ requests = <<>>
    /\ max_concurrent = 0
    /\ semaphore = 0
    /\ task = <<>>
    /\ completed = <<>>
    /\ gathered = NoGather
    /\ config = NoConfig
    /\ metrics = <<>>
    /\ summary = NoSummary
    /\ invoke = <<>>
    /\ parser = NoParse
    /\ upload = NoUpload
    /\ conversations = <<>>
    /\ handling = IdleHandling
    /\ intent_type_mapped_handler = {}
    /\ chain = NoChain

\* Sequential calls over the given ledger; nothing is inserted.
NextGiven ==
    \/ \E p \in Procs, m \in Months : BeginSeq(p, m)
    \/ \E p \in Procs : SelectTransactions(p)
    \/ \E p \in Procs : Write(p)
    \/ \E p \in Procs : Crash(p)

SpecGiven == InitGiven /\ [][NextGiven]_vars

\* =========================================================================
\* Orchestration Service (advisor/llm/llm_service.py) over the Completion
\* Client (lite_llm_client.py), the Prompt Manager (prompt_manager.py) and
\* the Metrics Collector (metrics_collector.py)
\* =========================================================================
NumCalls == 2

\* constants.py, LLMProvider; settings.py line 13: the provider may be None.
OLLAMA == "ollama"
OPENAI == "openai"
ANTHROPIC == "anthropic"
LLMProvider == {OLLAMA, OPENAI, ANTHROPIC}

\* The settings object a LiteLLMClient is built with.  to_litellm_model says
\* whether the object has the method of that name, which _build_params
\* calls: an LLMSettings of settings.py has to_litellm_model_name only, a
\* settings object of a subclass may have both.
ModelNames == {"gpt-4", "llama3"}
LLMSettings ==
    [provider : {None, OPENAI, OLLAMA}, model_name : ModelNames,
     to_litellm_model : BOOLEAN]

\* dict.get(key, default)
DictGet(dict, key, default) == IF key \in DOMAIN dict THEN dict[key] ELSE default

\* metrics_collector.py lines 16-26, prices per 1M tokens.
PRICING ==
    (OPENAI :> ("gpt-4" :> [input |-> 1, output |-> 1]
                @@ "gpt-4-turbo" :> [input |-> 1, output |-> 1]))
    @@ (ANTHROPIC :> ("claude-4-sonnet" :> [input |-> 1, output |-> 1]
                      @@ "claude-4.5-haiku" :> [input |-> 1, output |-> 1]))
    @@ (OLLAMA :> ("default" :> [input |-> 0, output |-> 0]))

\* metrics_collector.py lines 68-93, in millionths of a dollar.
estimate_cost(provider, model, input_tokens, output_tokens) ==
    LET provider_pricing == DictGet(PRICING, provider, <<>>)
        exact == DictGet(provider_pricing, model, <<>>)
        pricing == IF exact = <<>>
                   THEN DictGet(provider_pricing, "default",
                                [input |-> 0, output |-> 0])
                   ELSE exact
    IN input_tokens * pricing.input + output_tokens * pricing.output

\* metrics_collector.py line 56, provider.value: an AttributeError when the
\* provider is None.
RecordCallRaises(provider) == provider \notin LLMProvider

\* metrics_collector.py lines 54-65, the entry of a call (without the wall
\* clock readings timestamp and latency_ms).
Metric(provider, model, input_tokens, output_tokens, success, error_type) ==
    [provider |-> provider, model |-> model,
     input_tokens |-> input_tokens, output_tokens |-> output_tokens,
     total_tokens |-> input_tokens + output_tokens,
     success |-> success, error_type |-> error_type,
     cost_usd |-> estimate_cost(provider, model, input_tokens, output_tokens)]

\* metrics_collector.py lines 32-66, when line 56 does not raise.
record_call(ms, provider, model, input_tokens, output_tokens, success, error_type) ==
    Append(ms, Metric(provider, model, input_tokens, output_tokens, success, error_type))

RECURSIVE SumCostUsd(_)
SumCostUsd(ms) ==
    IF ms = <<>> THEN 0 ELSE Head(ms).cost_usd + SumCostUsd(Tail(ms))

RECURSIVE SumTotalTokens(_)
SumTotalTokens(ms) ==
    IF ms = <<>> THEN 0 ELSE Head(ms).total_tokens + SumTotalTokens(Tail(ms))

\* metrics_collector.py lines 95-125 (without avg_latency_ms); success_rate
\* is an exact fraction.  The mutant counts every entry as successful.
get_summary_mutant(ms) ==
    IF ms = <<>>
    THEN [total_calls |-> 0, successful_calls |-> 0, success_rate |-> <<0, 1>>,
          total_cost_usd |-> 0, total_tokens |-> 0]
    ELSE [total_calls |-> Len(ms), successful_calls |-> Len(ms),
          success_rate |-> Quotient(Len(ms), Len(ms)),
          total_cost_usd |-> SumCostUsd(ms),
          total_tokens |-> SumTotalTokens(ms)]

get_summary(ms) ==
    IF ms = <<>>
    THEN [total_calls |-> 0, successful_calls |-> 0, success_rate |-> <<0, 1>>,
          total_cost_usd |-> 0, total_tokens |-> 0]
    ELSE LET total == Len(ms)
             successful == Cardinality({i \in DOMAIN ms : ms[i].success})
         IN [total_calls |-> total, successful_calls |-> successful,
             success_rate |-> Quotient(successful, total),
             total_cost_usd |-> SumCostUsd(ms),
             total_tokens |-> SumTotalTokens(ms)]

\* ------------------------------------------------------- Prompt Manager
\* The registry PromptManager._templates, latest versions.  A template
\* prints a variable ({{ transaction }}), reads an attribute of it
\* ({{ transaction.description }}) or has no variable.
Templates ==
    ("normalize_transaction_user" :> [reads |-> "attribute", chars |-> 12])
    @@ ("categorize_transaction_user" :> [reads |-> "variable", chars |-> 12])
    @@ ("categorize_transaction_system" :> [reads |-> "nothing", chars |-> 8])

\* Inputs: prompt keys, registered or not, and the variables given by name.
PromptKeyInputs ==
    {"normalize_transaction_user", "categorize_transaction_user", "unregistered"}
SystemPromptKeyInputs == {None, "categorize_transaction_system", "unregistered"}
VariablesInputs == {{}, {"transaction"}}

\* Template.render under Environment(autoescape=True), prompt_manager.py
\* line 25: the default Undefined prints as the empty string and raises
\* UndefinedError when an attribute of it is read.
RenderRaises(template, variables) ==
    template.reads = "attribute" /\ "transaction" \notin variables

\* The number of characters of the rendered text.
RenderChars(template, variables) ==
    IF template.reads = "variable" /\ "transaction" \notin variables
    THEN template.chars - 4
    ELSE template.chars

\* Lines 70-78 of invoke_structured (128-134 of invoke_raw, which renders no
\* system prompt): the exception they raise, None when they raise none.
\* get_prompt_template raises KeyError (line 106), validate_variables turns a
\* failed rendering into ValueError (line 175).
ResolveError(kind, prompt_key, variables, system_prompt_key) ==
    IF prompt_key \notin DOMAIN Templates THEN "KeyError"
    ELSE IF RenderRaises(Templates[prompt_key], variables) THEN "ValueError"
    ELSE IF kind = "structured" /\ system_prompt_key # None
            /\ system_prompt_key \notin DOMAIN Templates THEN "KeyError"
    ELSE IF kind = "structured" /\ system_prompt_key # None
            /\ RenderRaises(Templates[system_prompt_key], {}) THEN "UndefinedError"
    ELSE None

\* llm_service.py line 240, the character count estimate of _estimate_tokens.
Max(a, b) == IF a >= b THEN a ELSE b
Min(a, b) == IF a <= b THEN a ELSE b
estimate_tokens(chars) == Max(1, chars \div 4)

\* str(result) of a provider's answer has this many characters.
ResultChars == 8

\* ---------------------------------------------------- Completion Client
\* lite_llm_client.py lines 51-55 and 73: stop_after_attempt(3) and
\* wait_exponential(multiplier=1, min=2, max=10), in seconds.
StopAfterAttempt == 3
WaitMultiplier == 1
WaitMin == 2
WaitMax == 10

\* tenacity's stop_after_attempt.  The mutant allows one more attempt.
ShouldStopMutant(attempt_number) == attempt_number >= StopAfterAttempt + 1

ShouldStop(attempt_number) == attempt_number >= StopAfterAttempt

\* tenacity's wait_exponential: multiplier * 2^(attempt_number - 1), kept
\* between min and max.
wait_exponential(attempt_number) ==
    Max(WaitMin, Min(WaitMultiplier * Pow2(attempt_number - 1), WaitMax))

\* ------------------------------------------------- invoke_structured / raw
Calls == 1..NumCalls

IdleInvoke ==
    [pc |-> "idle", kind |-> "", prompt_key |-> "", variables |-> {},
     system_prompt_key |-> None, attempt_number |-> 0, attempts |-> <<>>,
     waits |-> <<>>, completion |-> NoValue, outcome |-> NoValue,
     entries |-> <<>>]

\* Variables the calls' steps leave alone.
invoke_frame == <<config, summary, parser, front_vars, batch_vars, normalized_transactions, pc, loc,
                  returned, engine_vars, pipeline_vars, budget_vars>>

\* Lines 96-109 (150-161): the except clause records the failure and
\* re-raises; when record_call itself raises, that exception leaves the call
\* and nothing was appended.  Gives <<metrics, outcome, entries appended>>.
OnException(ms, cfg, error) ==
    IF RecordCallRaises(cfg.provider)
    THEN <<ms, [status |-> "raised", error |-> "AttributeError"], <<>>>>
    ELSE <<record_call(ms, cfg.provider, cfg.model_name, 0, 0, FALSE, error),
           [status |-> "raised", error |-> error],
           <<Len(ms) + 1>>>>

\* Lines 83-94 (138-148): the success is recorded and the result returned;
\* an exception of record_call is caught by the except clause of line 96.
OnResult(ms, cfg, prompt_chars, result) ==
    IF RecordCallRaises(cfg.provider)
    THEN OnException(ms, cfg, "AttributeError")
    ELSE <<record_call(ms, cfg.provider, cfg.model_name,
                       estimate_tokens(prompt_chars), estimate_tokens(ResultChars),
                       TRUE, None),
           [status |-> "returned", value |-> result],
           <<Len(ms) + 1>>>>

\* The settings of a client and no call yet.
InitInvoke ==
    /\ config \in LLMSettings
    /\ metrics = <<>>
    /\ summary = NoSummary
    /\ invoke = [c \in Calls |-> IdleInvoke]
    /\ parser = NoParse
    /\ upload = NoUpload
    /\ conversations = <<>>
    /\ handling = IdleHandling
    /\ intent_type_mapped_handler = {}
    /\ chain = NoChain
    /\ requests = <<>>
    /\ max_concurrent = 0
    /\ semaphore = 0
    /\ task = <<>>
    /\ completed = <<>>
    /\ gathered = NoGather
    /\ normalized_transactions = <<>>
    /\ snapshots = {}
    /\ budget_thresholds = {}
    /\ next_snapshot_id = 1
    /\ clock = 0
    /\ pc = [p \in Procs |-> "idle"]
    /\ loc = [p \in Procs |-> IdleLoc]
    /\ returned = NoResult
    /\ inserted_since = FALSE
    /\ crashes = 0
    /\ crash_lost = {}
    /\ raw_transactions = <<>>
    /\ budget_call = NoCall

\* invoke_structured (kind "structured") or invoke_raw (kind "raw") is
\* called and runs to its first await, lines 65-81 (125-136): the templates
\* are resolved; a failure goes to the except clause and ends the call.
InvokeBegin(c, kind, prompt_key, variables, system_prompt_key) ==
    /\ invoke[c].pc = "idle"
    /\ kind = "raw" => system_prompt_key = None
    /\ LET error == ResolveError(kind, prompt_key, variables, system_prompt_key)
           started == [invoke[c] EXCEPT !.kind = kind, !.prompt_key = prompt_key,
                          !.variables = variables,
                          !.system_prompt_key = system_prompt_key]
           failed == OnException(metrics, config, error)
       IN IF error # None
          THEN /\ metrics' = failed[1]
               /\ invoke' = [invoke EXCEPT ![c] =
                                [started EXCEPT !.pc = "done", !.outcome = failed[2],
                                                !.entries = failed[3]]]
          ELSE /\ metrics' = metrics
               /\ invoke' = [invoke EXCEPT ![c] =
                                [started EXCEPT !.pc = "attempt",
                                                !.attempt_number = 1]]
    /\ UNCHANGED invoke_frame

\* One attempt of complete_structured (complete), lite_llm_client.py lines
\* 88-91 (69-71): _build_params raises AttributeError at line 123 when the
\* settings have no to_litellm_model, else the provider is asked and answers
\* or fails.  tenacity then returns the answer, sleeps before the next
\* attempt or, out of attempts, raises RetryError; the service records the
\* outcome of the call.
Attempt(c, answers) ==
    /\ invoke[c].pc = "attempt"
    /\ ~config.to_litellm_model => ~answers
    /\ LET n == invoke[c].attempt_number
           attempt == IF ~config.to_litellm_model THEN "no_request"
                      ELSE IF answers THEN "answered" ELSE "failed"
           tried == [invoke[c] EXCEPT !.attempts = Append(@, attempt)]
           prompt_chars == RenderChars(Templates[invoke[c].prompt_key],
                                       invoke[c].variables)
           result == ResponseOf([prompt_key |-> invoke[c].prompt_key])
           completion == IF answers
                         THEN [status |-> "returned", value |-> result]
                         ELSE [status |-> "raised", error |-> "RetryError"]
           ended == IF answers
                    THEN OnResult(metrics, config, prompt_chars, result)
                    ELSE OnException(metrics, config, completion.error)
       IN IF answers \/ ShouldStop(n)
          THEN /\ metrics' = ended[1]
               /\ invoke' = [invoke EXCEPT ![c] =
                                [tried EXCEPT !.pc = "done",
                                              !.completion = completion,
                                              !.outcome = ended[2],
                                              !.entries = ended[3]]]
          ELSE /\ metrics' = metrics
               /\ invoke' = [invoke EXCEPT ![c] =
                                [tried EXCEPT !.pc = "backoff",
                                              !.waits = Append(@, wait_exponential(n))]]
    /\ UNCHANGED invoke_frame

\* The sleep before the next attempt is over.
Backoff(c) ==
    /\ invoke[c].pc = "backoff"
    /\ invoke' = [invoke EXCEPT ![c].pc = "attempt", ![c].attempt_number = @ + 1]
    /\ UNCHANGED <<metrics, invoke_frame>>

\* llm_service.py lines 244-246: get_metrics_summary returns the collector's
\* summary.
GetMetricsSummary ==
    /\ summary' = get_summary(metrics)
    /\ UNCHANGED <<config, metrics, invoke, parser, front_vars, batch_vars,
                   normalized_transactions, pc, loc, returned, engine_vars,
                   pipeline_vars, budget_vars>>

NextInvoke ==
    \/ \E c \in Calls, kind \in {"structured", "raw"},
          prompt_key \in PromptKeyInputs, variables \in VariablesInputs,
          system_prompt_key \in SystemPromptKeyInputs :
          InvokeBegin(c, kind, prompt_key, variables, system_prompt_key)
    \/ \E c \in Calls, answers \in BOOLEAN : Attempt(c, answers)
    \/ \E c \in Calls : Backoff(c)
    \/ GetMetricsSummary

SpecInvoke == InitInvoke /\ [][NextInvoke]_vars

\* Every call to the provider ends and the event loop runs every coroutine
\* that can run.
SpecInvokeFair == SpecInvoke /\ WF_vars(NextInvoke)

\* ------------------------------------------- a batch and its metric entries
\* Variables the steps of a batch that records its calls leave alone.
batch_frame == <<config, summary, invoke, parser, front_vars,
                 normalized_transactions, pc, loc, returned, engine_vars,
                 pipeline_vars, budget_vars>>

\* batch_invoke_structured is called on a service whose client has these
\* settings and whose collector is empty.
InitBatchInvoke ==
    /\ config \in LLMSettings
    /\ requests \in SeqsUpTo(Requests, MaxRequests)
    /\ max_concurrent \in 1..MaxConcurrent
    /\ semaphore = max_concurrent
    /\ task = [i \in DOMAIN requests |->
                  [pc |-> "waiting", invocations |-> 0, result |-> NoValue]]
    /\ completed = <<>>
    /\ gathered = NoGather
    /\ metrics = <<>>
    /\ summary = NoSummary
    /\ invoke = <<>>
    /\ parser = NoParse
    /\ upload = NoUpload
    /\ conversations = <<>>
    /\ handling = IdleHandling
    /\ intent_type_mapped_handler = {}
    /\ chain = NoChain
    /\ normalized_transactions = <<>>
    /\ snapshots = {}
    /\ budget_thresholds = {}
    /\ next_snapshot_id = 1
    /\ clock = 0
    /\ pc = [p \in Procs |-> "idle"]
    /\ loc = [p \in Procs |-> IdleLoc]
    /\ returned = NoResult
    /\ inserted_since = FALSE
    /\ crashes = 0
    /\ crash_lost = {}
    /\ raw_transactions = <<>>
    /\ budget_call = NoCall

\* Lines 181-188 with lines 65-109: the invoke_structured call of task i
\* ends.  The client answered, or it gave up after its attempts; the outcome
\* is recorded by record_call, whose own exception replaces it; the task
\* leaves the semaphore.
ProcessOne(i, answers) ==
    /\ i \in DOMAIN task
    /\ task[i].pc = "invoking"
    /\ ~config.to_litellm_model => ~answers
    /\ LET prompt_chars == RenderChars(Templates[requests[i].prompt_key],
                                       {"transaction"})
           result == ResponseOf(requests[i])
           ended == IF answers
                    THEN OnResult(metrics, config, prompt_chars, result)
                    ELSE OnException(metrics, config, "RetryError")
       IN /\ metrics' = ended[1]
          /\ task' = [task EXCEPT
                         ![i].pc = ended[2].status,
                         ![i].result = IF ended[2].status = "returned"
                                       THEN ended[2].value ELSE NoValue]
    /\ semaphore' = semaphore + 1
    /\ completed' = Append(completed, i)
    /\ UNCHANGED <<requests, max_concurrent, gathered, batch_frame>>

NextBatchInvoke ==
    \/ \E i \in 1..MaxRequests : Acquire(i)
    \/ \E i \in 1..MaxRequests, answers \in BOOLEAN : ProcessOne(i, answers)
    \/ Gather

SpecBatchInvoke == InitBatchInvoke /\ [][NextBatchInvoke]_vars

\* =========================================================================
\* Output Reconciler (advisor/llm/llm_output_parser.py)
\* =========================================================================
MaxText == 3
MaxProse == 1

\* A text is a sequence of pieces: a code fence, the word json, a brace, a
\* bracket, a comma, a word of prose, white space, the number 1, or a member
\* "category": <value> of a JSON object, its value a string or a number.
\* FENCE stands for the three backquotes of a markdown code fence.
FENCE == "fence"
MemberPieces == {"category:Food", "category:Rent", "category:1"}
Pieces == {FENCE, "json", "{", "}", "[", "]", ",", "w", " ", "1"} \cup MemberPieces
ProsePieces == {"w", "{", "}", "[", "]"}

KeyOf(member) == "category"
ValueOf(member) ==
    IF member = "category:Food" THEN "Food"
    ELSE IF member = "category:Rent" THEN "Rent" ELSE "1"
\* The values a str field accepts: JSON strings, not JSON numbers.
StrValues == {"Food", "Rent"}

\* The response types: a model with the required field category: str (as
\* CategoryPredictionModel, data_models.py lines 41-43) and one whose field
\* has a default.  A FieldInfo of a required field has the default
\* PydanticUndefined.
PydanticUndefined == "PydanticUndefined"
ModelFields ==
    ("RequiredModel" :> <<[name |-> "category", annotation |-> "str",
                          default |-> PydanticUndefined, required |-> TRUE]>>)
    @@ ("DefaultedModel" :> <<[name |-> "category", annotation |-> "str",
                              default |-> "unknown", required |-> FALSE]>>)
ResponseTypes == DOMAIN ModelFields

\* expected_type(**data) for a dict: the instance, or ValidationError when a
\* value is not of the field's type or a required field is missing.
Construct(expected_type, data) ==
    LET fields == ModelFields[expected_type]
        Valid(f) == IF f.name \in DOMAIN data
                    THEN data[f.name] \in StrValues
                    ELSE ~f.required
    IN IF \A i \in DOMAIN fields : Valid(fields[i])
       THEN [status |-> "returned",
             value |-> [i \in DOMAIN fields |->
                           IF fields[i].name \in DOMAIN data
                           THEN data[fields[i].name] ELSE fields[i].default]]
       ELSE [status |-> "raised", error |-> "ValidationError"]

\* str.strip()
RECURSIVE LStrip(_)
LStrip(text) ==
    IF text # <<>> /\ Head(text) = " " THEN LStrip(Tail(text)) ELSE text

RECURSIVE RStrip(_)
RStrip(text) ==
    IF text # <<>> /\ text[Len(text)] = " "
    THEN RStrip(SubSeq(text, 1, Len(text) - 1)) ELSE text

Strip(text) == RStrip(LStrip(text))

\* Lines 106 and 108, one-based: the first opening brace or bracket (the
\* length + 1 when there is none), the last closing one (0 when none).
FindStart(text) ==
    LET found == {i \in DOMAIN text : text[i] \in {"{", "["}}
    IN IF found = {} THEN Len(text) + 1
       ELSE CHOOSE i \in found : \A j \in found : i <= j

FindEnd(text) ==
    LET found == {i \in DOMAIN text : text[i] \in {"}", "]"}}
    IN IF found = {} THEN 0
       ELSE CHOOSE i \in found : \A j \in found : i >= j

\* Lines 83-113: the fences come off a text that starts or ends with one,
\* then the text is cut from its first opening brace or bracket to its last
\* closing one.
clean_json(text) ==
    LET stripped == Strip(text)
        opened == IF Len(stripped) >= 2 /\ stripped[1] = FENCE /\ stripped[2] = "json"
                  THEN SubSeq(stripped, 3, Len(stripped))
                  ELSE IF Len(stripped) >= 1 /\ stripped[1] = FENCE
                  THEN SubSeq(stripped, 2, Len(stripped))
                  ELSE stripped
        closed == IF Len(opened) >= 1 /\ opened[Len(opened)] = FENCE
                  THEN SubSeq(opened, 1, Len(opened) - 1)
                  ELSE opened
        inner == Strip(closed)
        start == FindStart(inner)
        end == FindEnd(inner)
    IN IF start <= Len(inner) /\ end >= 1 THEN SubSeq(inner, start, end) ELSE inner

\* json.loads: white space between the pieces does not count; a value is the
\* number, an object of members or an array of values.
NoSpace(text) == SelectSeq(text, LAMBDA piece : piece # " ")

RECURSIVE IsMembers(_)
IsMembers(u) ==
    /\ Len(u) >= 1
    /\ u[1] \in MemberPieces
    /\ \/ Len(u) = 1
       \/ Len(u) >= 3 /\ u[2] = "," /\ IsMembers(SubSeq(u, 3, Len(u)))

IsJsonObject(u) ==
    /\ Len(u) >= 2
    /\ u[1] = "{"
    /\ u[Len(u)] = "}"
    /\ Len(u) = 2 \/ IsMembers(SubSeq(u, 2, Len(u) - 1))

RECURSIVE IsJsonValue(_)
RECURSIVE IsElements(_)
IsElements(u) ==
    \E k \in 1..Len(u) :
        /\ IsJsonValue(SubSeq(u, 1, k))
        /\ \/ k = Len(u)
           \/ k + 2 <= Len(u) /\ u[k + 1] = "," /\ IsElements(SubSeq(u, k + 2, Len(u)))

IsJsonArray(u) ==
    /\ Len(u) >= 2
    /\ u[1] = "["
    /\ u[Len(u)] = "]"
    /\ Len(u) = 2 \/ IsElements(SubSeq(u, 2, Len(u) - 1))

IsJsonValue(u) == u = <<"1">> \/ IsJsonObject(u) \/ IsJsonArray(u)

\* The dict of an object's members; the last of two equal keys stays.
RECURSIVE DictOf(_)
DictOf(members) ==
    IF members = <<>> THEN <<>>
    ELSE LET last == members[Len(members)]
         IN (KeyOf(last) :> ValueOf(last))
            @@ DictOf(SubSeq(members, 1, Len(members) - 1))

json_loads(text) ==
    LET u == NoSpace(text)
    IN IF ~IsJsonValue(u) THEN [kind |-> "JSONDecodeError"]
       ELSE IF IsJsonObject(u)
       THEN [kind |-> "dict",
             value |-> DictOf(SelectSeq(u, LAMBDA piece : piece \in MemberPieces))]
       ELSE IF IsJsonArray(u) THEN [kind |-> "list"]
       ELSE [kind |-> "int"]

\* Lines 35-43: JSONDecodeError and ValidationError become ValueError;
\* expected_type(**data) with data a list or a number raises TypeError, which
\* neither except clause catches.
parse(llm_output, expected_type) ==
    LET data == json_loads(clean_json(llm_output))
    IN IF data.kind = "JSONDecodeError"
       THEN [status |-> "raised", error |-> "ValueError"]
       ELSE IF data.kind # "dict"
       THEN [status |-> "raised", error |-> "TypeError"]
       ELSE LET made == Construct(expected_type, data.value)
            IN IF made.status = "raised"
               THEN [status |-> "raised", error |-> "ValueError"]
               ELSE made

\* Lines 124-127, re.findall of \{(?:[^{}]|(?:\{[^{}]*\}))*\}: from an opening
\* brace the pattern runs over pieces that are no braces and over groups
\* { ... } without braces inside, up to a closing brace.
GroupEnd(text, p) ==
    LET braces == {q \in (p + 1)..Len(text) : text[q] \in {"{", "}"}}
    IN IF braces = {} THEN 0
       ELSE LET q == CHOOSE q \in braces : \A r \in braces : q <= r
            IN IF text[q] = "}" THEN q ELSE 0

RECURSIVE MatchEnd(_, _)
MatchEnd(text, p) ==
    IF p > Len(text) THEN 0
    ELSE IF text[p] = "}" THEN p
    ELSE IF text[p] = "{"
    THEN IF GroupEnd(text, p) = 0 THEN 0 ELSE MatchEnd(text, GroupEnd(text, p) + 1)
    ELSE MatchEnd(text, p + 1)

\* The first match, <<>> for None.
extract_json_anywhere(text) ==
    LET starts == {i \in DOMAIN text : text[i] = "{" /\ MatchEnd(text, i + 1) # 0}
    IN IF starts = {} THEN <<>>
       ELSE LET i == CHOOSE i \in starts : \A j \in starts : i <= j
            IN SubSeq(text, i, MatchEnd(text, i + 1))

\* Lines 129-159: a field whose default is not None is passed over (line
\* 139), then one that is not required; the others get the default of their
\* annotation.
create_minimal_instance(expected_type) ==
    LET fields == ModelFields[expected_type]
        given == {i \in DOMAIN fields :
                     /\ ~(fields[i].default # None)
                     /\ fields[i].required
                     /\ fields[i].annotation = "str"}
        default_values == IF given = {} THEN <<>> ELSE ("category" :> "unknown")
    IN Construct(expected_type, default_values)

\* The instance a caller's default factory returns.
DefaultFactories == {None, "factory"}
FactoryValue == <<"fallback">>

\* Lines 62-81: the second and third strategy, then the whole method, which
\* goes past the first strategy on ValueError only.
Strategy23(llm_output, expected_type, default_factory) ==
    LET extracted == extract_json_anywhere(llm_output)
        data == json_loads(extracted)
        made == IF extracted # <<>> /\ data.kind = "dict"
                THEN Construct(expected_type, data.value)
                ELSE [status |-> "raised", error |-> "JSONDecodeError"]
    IN IF made.status = "returned" THEN made
       ELSE IF default_factory # None
       THEN [status |-> "returned", value |-> FactoryValue]
       ELSE create_minimal_instance(expected_type)

parse_with_fallback(llm_output, expected_type, default_factory) ==
    LET strict == parse(llm_output, expected_type)
    IN IF strict.status = "returned" THEN strict
       ELSE IF strict.error # "ValueError" THEN strict
       ELSE Strategy23(llm_output, expected_type, default_factory)

\* ---------------------------------------------------------------- inputs
\* JSON object texts.
ObjectTexts ==
    {<<"{", "category:Food", "}">>, <<"{", "category:Rent", "}">>,
     <<"{", " ", "category:Food", ",", "category:Rent", " ", "}">>,
     <<"{", "}">>}

\* A text between fences, with prose before and after.
Wrap(text, lead, fence, trail) ==
    lead \o (IF fence = "none" THEN text
             ELSE (IF fence = "fence json" THEN <<FENCE, "json">> ELSE <<FENCE>>)
                  \o <<" ">> \o text \o <<" ", FENCE>>)
         \o trail

ParserInputs ==
    [bare : SeqsUpTo(Pieces, MaxText), lead : {<<>>}, fence : {"none"},
     trail : {<<>>}, expected_type : ResponseTypes,
     default_factory : DefaultFactories]
    \cup
    [bare : ObjectTexts, lead : SeqsUpTo(ProsePieces, MaxProse),
     fence : {"fence json", "fence"}, trail : SeqsUpTo(ProsePieces, MaxProse),
     expected_type : ResponseTypes, default_factory : DefaultFactories]

\* The text handed to the parser.
LlmOutput == Wrap(parser.bare, parser.lead, parser.fence, parser.trail)

parser_frame == <<config, metrics, summary, invoke, front_vars, batch_vars,
                  normalized_transactions, pc, loc, returned, engine_vars,
                  pipeline_vars, budget_vars>>

\* A text, a response type and a default factory, nothing parsed yet.
InitParser ==
    /\ \E input \in ParserInputs :
          parser = [bare |-> input.bare, lead |-> input.lead,
                    fence |-> input.fence, trail |-> input.trail,
                    expected_type |-> input.expected_type,
                    default_factory |-> input.default_factory,
                    parsed_bare |-> NoValue, parsed |-> NoValue,
                    reconciled |-> NoValue]
    /\ upload = NoUpload
    /\ conversations = <<>>
    /\ handling = IdleHandling
    /\ intent_type_mapped_handler = {}
    /\ chain = NoChain
    /\ config = NoConfig
    /\ metrics = <<>>
    /\ summary = NoSummary
    /\ invoke = <<>>
    /\ requests = <<>>
    /\ max_concurrent = 0
    /\ semaphore = 0
    /\ task = <<>>
    /\ completed = <<>>
    /\ gathered = NoGather
    /\ normalized_transactions = <<>>
    /\ snapshots = {}
    /\ budget_thresholds = {}
    /\ next_snapshot_id = 1
    /\ clock = 0
    /\ pc = [p \in Procs |-> "idle"]
    /\ loc = [p \in Procs |-> IdleLoc]
    /\ returned = NoResult
    /\ inserted_since = FALSE
    /\ crashes = 0
    /\ crash_lost = {}
    /\ raw_transactions = <<>>
    /\ budget_call = NoCall

\* parse(text, expected_type) of the text without its wrapping.
ParseBare ==
    /\ parser.parsed_bare = NoValue
    /\ parser' = [parser EXCEPT !.parsed_bare = parse(parser.bare, parser.expected_type)]
    /\ UNCHANGED parser_frame

\* parse(llm_output, expected_type)
Parse ==
    /\ parser.parsed = NoValue
    /\ parser' = [parser EXCEPT !.parsed = parse(LlmOutput, parser.expected_type)]
    /\ UNCHANGED parser_frame

\* parse_with_fallback(llm_output, expected_type, default_factory)
ParseWithFallback ==
    /\ parser.reconciled = NoValue
    /\ parser' = [parser EXCEPT !.reconciled =
                     parse_with_fallback(LlmOutput, parser.expected_type,
                                         parser.default_factory)]
    /\ UNCHANGED parser_frame

NextParser == ParseBare \/ Parse \/ ParseWithFallback

SpecParser == InitParser /\ [][NextParser]_vars

\* =========================================================================
\* Ingestion (advisor/ingestion/csv_parser.py, advisor/api/v1/transactions.py)
\* =========================================================================
MaxRows == 2

DEFAULT_CURRENCY == "USD"

\* The uploaded bytes, as csv.DictReader splits them under the header
\* Date,Amount,Description: a sequence of data rows, each cell a sequence of
\* tokens.  NoCell is the cell of a column the row does not reach (the
\* reader gives None for it), UNDECODABLE a byte that is no UTF-8.
NoCell == <<"None">>
UNDECODABLE == "0xFF"
YearToken == "2023"
NumberOf == ("01" :> 1) @@ ("02" :> 2) @@ ("12" :> 12) @@ ("30" :> 30) @@ ("31" :> 31)
CentsOf == ("100.50" :> 10050) @@ ("20.00" :> 2000)

DateCells ==
    {NoCell,
     <<YearToken, "-", "01", "-", "31">>,
     <<"12", "/", "01", "/", YearToken>>,
     <<"31", "-", "01", "-", YearToken>>,
     <<"02", "/", "30", "/", YearToken>>}
AmountCells ==
    {NoCell, <<>>, <<"100.50">>, <<"-", "20.00">>, <<"abc">>, <<"NaN">>,
     <<UNDECODABLE>>}
DescriptionCells == {NoCell, <<"Grocery Store">>}
CsvRows == [Date : DateCells, Amount : AmountCells, Description : DescriptionCells]
CsvFiles == SeqsUpTo(CsvRows, MaxRows)

\* Line 21: file_content.read().decode("utf-8") raises UnicodeDecodeError on
\* a byte sequence that is no UTF-8, wherever in the file it stands.
DecodeRaises(file_content) ==
    \E i \in DOMAIN file_content :
        \E column \in DOMAIN file_content[i] :
            UNDECODABLE \in {file_content[i][column][k] :
                                k \in DOMAIN file_content[i][column]}

\* row.get(...) or ...: None and the empty string are both falsy.
Falsy(cell) == cell = NoCell \/ cell = <<>>

\* Lines 37-41: datetime.fromisoformat(...).date() for a text with a dash,
\* datetime.strptime(..., "%m/%d/%Y").date() otherwise; either raises
\* ValueError on a text that is no date in its format.
IsCalendarDate(month, day) == month \in 1..12 /\ day \in 1..DaysInMonth(month)

fromisoformat(date_str) ==
    IF /\ Len(date_str) = 5
       /\ date_str[1] = YearToken
       /\ date_str[2] = "-"
       /\ date_str[4] = "-"
       /\ date_str[3] \in DOMAIN NumberOf
       /\ date_str[5] \in DOMAIN NumberOf
       /\ IsCalendarDate(NumberOf[date_str[3]], NumberOf[date_str[5]])
    THEN [status |-> "returned", value |-> <<NumberOf[date_str[3]], NumberOf[date_str[5]]>>]
    ELSE [status |-> "raised", error |-> "ValueError"]

strptime(date_str) ==
    IF /\ Len(date_str) = 5
       /\ date_str[5] = YearToken
       /\ date_str[2] = "/"
       /\ date_str[4] = "/"
       /\ date_str[1] \in DOMAIN NumberOf
       /\ date_str[3] \in DOMAIN NumberOf
       /\ IsCalendarDate(NumberOf[date_str[1]], NumberOf[date_str[3]])
    THEN [status |-> "returned", value |-> <<NumberOf[date_str[1]], NumberOf[date_str[3]]>>]
    ELSE [status |-> "raised", error |-> "ValueError"]

ParseDate(date_str) ==
    IF "-" \in Range(date_str) THEN fromisoformat(date_str) ELSE strptime(date_str)

\* Line 42: Decimal(amount_str): an optional sign and a numeral, or NaN;
\* anything else raises InvalidOperation.
Decimal(amount_str) ==
    LET signed == Len(amount_str) = 2 /\ amount_str[1] \in {"-", "+"}
        digits == IF signed THEN amount_str[2]
                  ELSE IF Len(amount_str) = 1 THEN amount_str[1] ELSE "?"
    IN IF digits \in DOMAIN CentsOf
       THEN [status |-> "returned", nan |-> FALSE,
             negative |-> signed /\ amount_str[1] = "-", cents |-> CentsOf[digits]]
       ELSE IF digits = "NaN"
       THEN [status |-> "returned", nan |-> TRUE, negative |-> FALSE, cents |-> 0]
       ELSE [status |-> "raised", nan |-> FALSE, negative |-> FALSE, cents |-> 0]

\* Lines 27-63, one row of the loop: <<>> for a skipped row, else the one
\* RawTransaction built from it.  amount_value < 0 raises InvalidOperation
\* on NaN.  external_id (a fresh uuid4) is left out.
ParseRow(row, user_id) ==
    LET date_str == row.Date
        amount_str == row.Amount
        description == IF Falsy(row.Description) THEN <<>> ELSE row.Description
        transaction_date == ParseDate(date_str)
        amount_value == Decimal(amount_str)
    IN IF Falsy(date_str) \/ Falsy(amount_str) THEN <<>>
       ELSE IF transaction_date.status = "raised" THEN <<>>
       ELSE IF amount_value.status = "raised" \/ amount_value.nan THEN <<>>
       ELSE <<[source |-> "csv",
               type |-> IF amount_value.negative THEN DEBIT ELSE CREDIT,
               description |-> description,
               raw_category |-> None,
               amount |-> amount_value.cents,
               currency |-> DEFAULT_CURRENCY,
               date |-> transaction_date.value,
               user_id |-> user_id,
               raw_data |-> row]>>

RECURSIVE ParseRows(_, _)
ParseRows(rows, user_id) ==
    IF rows = <<>> THEN <<>>
    ELSE ParseRow(Head(rows), user_id) \o ParseRows(Tail(rows), user_id)

\* Lines 20-65.
parse_transactions(file_content, user_id) ==
    IF DecodeRaises(file_content)
    THEN [status |-> "raised", error |-> "UnicodeDecodeError"]
    ELSE [status |-> "returned", value |-> ParseRows(file_content, user_id)]

\* utils/file_utils.py: the text after the last dot, lowered; a filename is a
\* sequence of tokens.
Lower == ("csv" :> "csv") @@ ("CSV" :> "csv") @@ ("txt" :> "txt") @@ ("t" :> "t")
Filenames == {<<>>, <<"csv">>, <<"t", ".", "csv">>, <<"t", ".", "CSV">>, <<"t", ".", "txt">>}

extract_file_extension(filename) ==
    IF "." \in Range(filename) THEN Lower[filename[Len(filename)]] ELSE ""

\* ingestion/factory.py: the parser registered for the extension.
Parsers == {".csv"}
GetParserRaises(filename) == ("." \o extract_file_extension(filename)) \notin Parsers

\* ------------------------------------------------------------ bulk upload
BAD_REQUEST == "BAD_REQUEST"
INTERNAL_SERVER_ERROR == "INTERNAL_SERVER_ERROR"
CREATED == "CREATED"

HTTPException(status_code, detail) == [status_code |-> status_code, detail |-> detail]

\* api/v1/transactions.py lines 54-89: the response of the endpoint; commits
\* tells whether the transaction of lines 78-79 commits.
BulkUploadResponse(filename, file_content, user_id, commits) ==
    LET transactions == parse_transactions(file_content, user_id)
    IN IF filename = <<>> THEN HTTPException(BAD_REQUEST, "Filename is missing")
       ELSE IF GetParserRaises(filename)
       THEN HTTPException(BAD_REQUEST, "Unsupported file type. Only CSV files are supported.")
       ELSE IF transactions.status = "raised"
       THEN HTTPException(INTERNAL_SERVER_ERROR, "Failed to parse CSV file")
       ELSE IF transactions.value = <<>>
       THEN HTTPException(BAD_REQUEST, "No valid transactions found in the file")
       ELSE IF ~commits
       THEN HTTPException(INTERNAL_SERVER_ERROR, "Failed to store transactions")
       ELSE [status_code |-> CREATED, message |-> "Transactions imported successfully",
             count |-> Len(transactions.value), user_id |-> user_id]

\* Variables the ingestion steps leave alone.
ingest_frame == <<conversations, chain, handling, intent_type_mapped_handler, llm_vars, batch_vars, normalized_transactions, pc, loc,
                  returned, engine_vars, budget_vars>>

\* A raw transaction stored by an earlier upload.
StoredBefore ==
    ParseRows(<<[Date |-> <<YearToken, "-", "01", "-", "31">>, Amount |-> <<"20.00">>,
                 Description |-> <<"Coffee Shop">>]>>, UserId)

\* One request with its file, over an empty table or one earlier row.
InitIngest ==
    /\ \E filename \in Filenames, file_content \in CsvFiles :
          upload = [filename |-> filename, file_content |-> file_content,
                    parsed |-> NoValue, response |-> NoValue]
    /\ raw_transactions \in {<<>>, StoredBefore}
    /\ conversations = <<>>
    /\ handling = IdleHandling
    /\ intent_type_mapped_handler = {}
    /\ chain = NoChain
    /\ config = NoConfig
    /\ metrics = <<>>
    /\ summary = NoSummary
    /\ invoke = <<>>
    /\ parser = NoParse
    /\ requests = <<>>
    /\ max_concurrent = 0
    /\ semaphore = 0
    /\ task = <<>>
    /\ completed = <<>>
    /\ gathered = NoGather
    /\ normalized_transactions = <<>>
    /\ snapshots = {}
    /\ budget_thresholds = {}
    /\ next_snapshot_id = 1
    /\ clock = 0
    /\ pc = [p \in Procs |-> "idle"]
    /\ loc = [p \in Procs |-> IdleLoc]
    /\ returned = NoResult
    /\ inserted_since = FALSE
    /\ crashes = 0
    /\ crash_lost = {}
    /\ budget_call = NoCall

\* CSVParser().parse_transactions(file, filename, user_id), called directly.
ParseTransactions ==
    /\ upload.parsed = NoValue
    /\ upload' = [upload EXCEPT !.parsed = parse_transactions(upload.file_content, UserId)]
    /\ UNCHANGED <<raw_transactions, ingest_frame>>

\* POST /transactions/bulk: lines 78-79 add the parsed rows in one
\* transaction, which commits or fails as a whole.
BulkUploadTransactions ==
    /\ upload.response = NoValue
    /\ \E commits \in BOOLEAN :
          LET response == BulkUploadResponse(upload.filename, upload.file_content,
                                             UserId, commits)
          IN /\ upload' = [upload EXCEPT !.response = response]
             /\ raw_transactions' =
                   IF response.status_code = CREATED
                   THEN raw_transactions \o parse_transactions(upload.file_content, UserId).value
                   ELSE raw_transactions
    /\ UNCHANGED ingest_frame

NextIngest == ParseTransactions \/ BulkUploadTransactions

SpecIngest == InitIngest /\ [][NextIngest]_vars


\* =========================================================================
\* Conversation Orchestrator
\* (advisor/service/conversations/conversation_orchestrator.py)
\* =========================================================================
MaxConversations == 2
MaxTurns == 2

\* ConversationStatus, IntentType and ConversationRole, as the orchestrator
\* names their members.
ACTIVE == "active"
COMPLETED_SUCCESS == "completed_success"
COMPLETED_ERROR == "completed_error"
ADD_TRANSACTION == "add_transaction"
INTENT_UNKNOWN == "unknown_intent"
SYSTEM == "system"
USER == "user"

\* The texts of lines 60, 74, 94 and 100.
UnsupportedIntentText == "Unsupported intent"
NoHandlerText == "Something went wrong"
SuccessText == "Action completed successfully"
FailedText == "Action failed"

NoConversation == [none |-> TRUE]

\* db_async_connector.py lines 53-74: get_session is an asynccontextmanager;
\* what it returns has __aenter__ and __aexit__ and no __enter__, so the
\* with statement of line 137 raises TypeError.
GetSessionSupportsWith == FALSE

\* Lines 36-41.
_prepare_system_message(conversation_id, content) ==
    [conversation_id |-> conversation_id, role |-> SYSTEM, content |-> content]

\* Lines 124-129: a conversation not yet in the table (id 0); max_turns is
\* the column's default.
NewConversation(user_id) ==
    [conversation_id |-> NoId, user_id |-> user_id, status |-> ACTIVE,
     intent |-> None, turn_count |-> 0, max_turns |-> MaxTurns,
     messages |-> <<>>]

\* Lines 138-142: scalar_one_or_none of the user's conversation with this id.
SelectConversation(user_id, conversation_id) ==
    IF /\ conversation_id \in DOMAIN conversations
       /\ conversations[conversation_id].user_id = user_id
    THEN conversations[conversation_id]
    ELSE NoConversation

\* Lines 122-148.  The mutant hands out the conversation it finds whatever
\* its status and turn_count.
_load_conversation_mutant(user_id, conversation_id) ==
    IF conversation_id = NoId
    THEN [status |-> "returned", value |-> NewConversation(user_id)]
    ELSE LET conversation == SelectConversation(user_id, conversation_id) IN
         IF conversation = NoConversation
         THEN [status |-> "raised", error |-> "ValueError"]
         ELSE [status |-> "returned", value |-> conversation]

_load_conversation(user_id, conversation_id) ==
    IF conversation_id = NoId
    THEN [status |-> "returned", value |-> NewConversation(user_id)]
    ELSE IF ~GetSessionSupportsWith
    THEN [status |-> "raised", error |-> "TypeError"]
    ELSE LET conversation == SelectConversation(user_id, conversation_id) IN
         IF conversation = NoConversation
         THEN [status |-> "raised", error |-> "ValueError"]
         ELSE IF \/ conversation.status # ACTIVE
                 \/ conversation.turn_count >= conversation.max_turns
         THEN [status |-> "raised", error |-> "ValueError"]
         ELSE [status |-> "returned", value |-> conversation]

\* Lines 150-154: the status is set, the turn counted and the conversation
\* added to a session that commits: a row is inserted for a conversation not
\* yet in the table, the row of a stored one is rewritten.  Gives the
\* conversation and the table.
_update_conversation_with_status(conversation, status) ==
    LET updated == [conversation EXCEPT !.status = status,
                                        !.turn_count = @ + 1]
    IN IF conversation.conversation_id = NoId
       THEN LET stored == [updated EXCEPT
                              !.conversation_id = Len(conversations) + 1]
            IN [conversation |-> stored, table |-> Append(conversations, stored)]
       ELSE [conversation |-> updated,
             table |-> [conversations EXCEPT
                           ![conversation.conversation_id] = updated]]

\* intent_handler_mapper.py lines 13-15: dict.get, None without a handler.
get_intent_handler(intent_type) ==
    IF intent_type \in intent_type_mapped_handler THEN intent_type ELSE None

conversation_frame == <<upload, chain, llm_vars, batch_vars, raw_transactions,
                        normalized_transactions, pc, loc, returned,
                        engine_vars, budget_vars>>

\* The application has started: no conversation, no handler registered
\* (intent_handler_mapper.py line 7), no message being handled.
InitConversation ==
    /\ conversations = <<>>
    /\ handling = IdleHandling
    /\ intent_type_mapped_handler = {}
    /\ upload = NoUpload
    /\ chain = NoChain
    /\ config = NoConfig
    /\ metrics = <<>>
    /\ summary = NoSummary
    /\ invoke = <<>>
    /\ parser = NoParse
    /\ requests = <<>>
    /\ max_concurrent = 0
    /\ semaphore = 0
    /\ task = <<>>
    /\ completed = <<>>
    /\ gathered = NoGather
    /\ normalized_transactions = <<>>
    /\ snapshots = {}
    /\ budget_thresholds = {}
    /\ next_snapshot_id = 1
    /\ clock = 0
    /\ pc = [p \in Procs |-> "idle"]
    /\ loc = [p \in Procs |-> IdleLoc]
    /\ returned = NoResult
    /\ inserted_since = FALSE
    /\ crashes = 0
    /\ crash_lost = {}
    /\ raw_transactions = <<>>
    /\ budget_call = NoCall

\* dependencies.py lines 111-114, intent_handler_mapper.py lines 9-11: the
\* handler of ADD_TRANSACTION is registered.
InitIntentHandlers ==
    /\ handling.pc \in {"idle", "done"}
    /\ intent_type_mapped_handler' = intent_type_mapped_handler \cup {ADD_TRANSACTION}
    /\ UNCHANGED <<conversations, handling, conversation_frame>>

\* handle_message(user_id, message) is called, lines 50-53: the conversation
\* is loaded, or the call raises what the loading raised; the message is
\* appended to the loaded conversation's messages.
HandleMessage(user_id, conversation_id) ==
    /\ handling.pc \in {"idle", "done"}
    /\ conversation_id = NoId => Len(conversations) < MaxConversations
    /\ LET loaded == _load_conversation(user_id, conversation_id)
           call == [user_id |-> user_id, conversation_id |-> conversation_id,
                    calls |-> <<>>, updates |-> <<>>]
       IN handling' =
             IF loaded.status = "raised"
             THEN call @@ [pc |-> "done", loaded |-> FALSE,
                           outcome |-> loaded]
             ELSE call @@ [pc |-> "define_user_intent", loaded |-> TRUE,
                           turn_count |-> loaded.value.turn_count,
                           conversation |->
                               [loaded.value EXCEPT
                                   !.messages = Append(@,
                                       [conversation_id |-> conversation_id,
                                        role |-> USER, content |-> "message"])]]
    /\ UNCHANGED <<conversations, intent_type_mapped_handler, conversation_frame>>

\* Lines 55-79 and 104-120: the intent is the conversation's, or the one the
\* model call gives, UNKNOWN when that call raises.  An UNKNOWN intent is
\* answered by a request to rephrase and the conversation stays ACTIVE.
\* Without a handler for the intent the conversation is closed with
\* COMPLETED_ERROR; the statement of line 79 then reads prepare_intent_data
\* of None, an AttributeError.
DefineUserIntent(raises, type) ==
    /\ handling.pc = "define_user_intent"
    /\ LET conversation == handling.conversation
           asks == conversation.intent = None
           intent == IF ~asks THEN conversation.intent
                     ELSE IF raises THEN INTENT_UNKNOWN ELSE type
           called == [handling EXCEPT
                         !.calls = IF asks THEN Append(@, "define_user_intent")
                                   ELSE @]
                     @@ [intent |-> intent]
       IN
       IF intent = INTENT_UNKNOWN
       THEN LET clarification_message ==
                    _prepare_system_message(conversation.conversation_id,
                                            UnsupportedIntentText)
                updated == _update_conversation_with_status(
                               [conversation EXCEPT
                                   !.messages = Append(@, clarification_message),
                                   !.intent = INTENT_UNKNOWN],
                               ACTIVE)
            IN /\ conversations' = updated.table
               /\ handling' = [called EXCEPT
                                  !.pc = "done",
                                  !.conversation = updated.conversation,
                                  !.updates = Append(@, ACTIVE)]
                              @@ [intent_handler |-> None,
                                  outcome |-> [status |-> "returned",
                                               value |-> clarification_message]]
       ELSE LET typed == [conversation EXCEPT !.intent = intent]
                intent_handler == get_intent_handler(intent)
            IN IF intent_handler = None
               THEN LET final_message ==
                            _prepare_system_message(conversation.conversation_id,
                                                    NoHandlerText)
                        updated == _update_conversation_with_status(
                                       [typed EXCEPT
                                           !.messages = Append(@, final_message)],
                                       COMPLETED_ERROR)
                    IN /\ conversations' = updated.table
                       /\ handling' = [called EXCEPT
                                          !.pc = "done",
                                          !.conversation = updated.conversation,
                                          !.updates = Append(@, COMPLETED_ERROR)]
                                      @@ [intent_handler |-> None,
                                          outcome |-> [status |-> "raised",
                                                       error |-> "AttributeError"]]
               ELSE /\ conversations' = conversations
                    /\ handling' = [called EXCEPT
                                       !.pc = "prepare_intent_data",
                                       !.conversation = typed]
                                   @@ [intent_handler |-> intent_handler]
    /\ UNCHANGED <<intent_type_mapped_handler, conversation_frame>>

\* Line 79, add_transaction_intent_handler.py lines 25-39: the handler's
\* model call returns the intent data or raises, and then handle_message
\* raises.
PrepareIntentData(raises) ==
    /\ handling.pc = "prepare_intent_data"
    /\ handling' =
          IF raises
          THEN [handling EXCEPT !.pc = "done",
                                !.calls = Append(@, "prepare_intent_data")]
               @@ [outcome |-> [status |-> "raised", error |-> "RetryError"]]
          ELSE [handling EXCEPT !.pc = "run_intent",
                                !.calls = Append(@, "prepare_intent_data")]
    /\ UNCHANGED <<conversations, intent_type_mapped_handler, conversation_frame>>

\* Lines 91-102, add_transaction_intent_handler.py lines 41-62: run_intent
\* gives a result that says whether the action succeeded (it catches its
\* exceptions); the conversation is closed accordingly.
RunIntent(success) ==
    /\ handling.pc = "run_intent"
    /\ LET conversation == handling.conversation
           status == IF success THEN COMPLETED_SUCCESS ELSE COMPLETED_ERROR
           final_message ==
               _prepare_system_message(conversation.conversation_id,
                                       IF success THEN SuccessText ELSE FailedText)
           updated == _update_conversation_with_status(
                          [conversation EXCEPT
                              !.messages = Append(@, final_message)],
                          status)
       IN /\ conversations' = updated.table
          /\ handling' = [handling EXCEPT
                             !.pc = "done",
                             !.calls = Append(@, "run_intent"),
                             !.conversation = updated.conversation,
                             !.updates = Append(@, status)]
                         @@ [success |-> success,
                             outcome |-> [status |-> "returned",
                                          value |-> final_message]]
    /\ UNCHANGED <<intent_type_mapped_handler, conversation_frame>>

NextConversation ==
    \/ InitIntentHandlers
    \/ \E user_id \in Users, conversation_id \in 0..MaxConversations :
          HandleMessage(user_id, conversation_id)
    \/ \E raises \in BOOLEAN, type \in {ADD_TRANSACTION, INTENT_UNKNOWN} :
          DefineUserIntent(raises, type)
    \/ \E raises \in BOOLEAN : PrepareIntentData(raises)
    \/ \E success \in BOOLEAN : RunIntent(success)

SpecConversation == InitConversation /\ [][NextConversation]_vars

\* =========================================================================
\* Properties
\* =========================================================================
RECURSIVE SumAmounts(_)
SumAmounts(ids) ==
    IF ids = {} THEN 0
    ELSE LET i == CHOOSE x \in ids : TRUE
         IN normalized_transactions[i].amount + SumAmounts(ids \ {i})

RECURSIVE SumTotalAmount(_)
SumTotalAmount(spends) ==
    IF spends = <<>> THEN 0
    ELSE Head(spends).total_amount + SumTotalAmount(Tail(spends))

RECURSIVE SumTransactionCount(_)
SumTransactionCount(spends) ==
    IF spends = <<>> THEN 0
    ELSE Head(spends).transaction_count + SumTransactionCount(Tail(spends))

TxnIds == DOMAIN normalized_transactions
LinkOf(i) == normalized_transactions[i].financial_period_snapshot_id
LinkedTo(s) == {i \in TxnIds : LinkOf(i) = s.id}
OfType(ids, type) == {i \in ids : normalized_transactions[i].type = type}
BaseIncome(p) ==
    IF loc[p].loaded = NoSnapshot THEN 0 ELSE loc[p].loaded.total_income
BaseOutcome(p) ==
    IF loc[p].loaded = NoSnapshot THEN 0 ELSE loc[p].loaded.total_outcome

\* C1: in every recalculation, the debit transactions folded raise
\* total_outcome by their amounts and leave total_income alone, and the credit
\* transactions folded raise total_income by their amounts and leave
\* total_outcome alone.
C1_DebitToOutcomeCreditToIncome ==
    \A p \in Procs :
        pc[p] = "write" =>
            LET folded == Range(loc[p].transactions) IN
            /\ loc[p].financial_snapshot.total_outcome - BaseOutcome(p)
                  = SumAmounts(OfType(folded, DEBIT))
            /\ loc[p].financial_snapshot.total_income - BaseIncome(p)
                  = SumAmounts(OfType(folded, CREDIT))

C4_LinkNeverReassigned ==
    [][\A i \in TxnIds :
          LinkOf(i) # NoId =>
              normalized_transactions'[i].financial_period_snapshot_id
                  = LinkOf(i)]_vars

\* C5: every linked transaction references a snapshot row that exists.
C5_LinkReferencesSnapshot ==
    \A i \in TxnIds :
        LinkOf(i) # NoId => \E s \in snapshots : s.id = LinkOf(i)

\* C5 witness: a transaction is linked while another call is about to write.
C5_Witness ==
    /\ \E i \in TxnIds : LinkOf(i) # NoId
    /\ \E p \in Procs : pc[p] = "write"

\* The transactions a crash-interrupted call had read are counted and linked
\* by snapshot s, which counts every transaction linked to it once.
HealedBy(s) ==
    /\ \A i \in crash_lost : LinkOf(i) = s.id
    /\ s.total_income + s.total_outcome = SumAmounts(LinkedTo(s))
    /\ SumTotalAmount(s.categories_spends) = SumAmounts(LinkedTo(s))
    /\ SumTransactionCount(s.categories_spends) = Cardinality(LinkedTo(s))

RECURSIVE SumTotals(_)
SumTotals(rows) ==
    IF rows = {} THEN 0
    ELSE LET s == CHOOSE x \in rows : TRUE
         IN s.total_income + s.total_outcome + SumTotals(rows \ {s})

\* The persisted snapshot totals count more than all transactions amount to:
\* some transaction is counted twice.
DoubleCounted == SumTotals(snapshots) > SumAmounts(TxnIds)

C8_OneSnapshotPerPeriod ==
    \A s1, s2 \in snapshots :
        (/\ s1.user_id = s2.user_id
         /\ s1.period = s2.period
         /\ s1.start_date = s2.start_date) => s1.id = s2.id

\* C9: in every persisted snapshot the category spends agree with the totals
\* and with the transactions folded into it.
C9_TotalsAgreeWithCategorySpend ==
    \A s \in snapshots :
        /\ SumTotalAmount(s.categories_spends) = s.total_income + s.total_outcome
        /\ SumTransactionCount(s.categories_spends) = Cardinality(LinkedTo(s))

\* C10: after every recalculation, on the create and on the update path,
\* savings = income - outcome, savings_rate = (income - outcome) / income * 100
\* when income > 0 and 0 when income = 0.
C10_SavingsAndRate ==
    \A p \in Procs :
        pc[p] = "write" =>
            LET s == loc[p].financial_snapshot
                income == s.total_income
                outcome == s.total_outcome
            IN /\ s.savings = income - outcome
               /\ income > 0 =>
                     s.savings_rate[1] * income
                         = (income - outcome) * 100 * s.savings_rate[2]
               /\ income = 0 => s.savings_rate = <<0, 1>>

\* The ledger of the example: two debits, 100.50 on January 1 and 20.00 on
\* January 2, both resolved to Food (whatever their links).
IsFoodExample ==
    [i \in DOMAIN normalized_transactions |->
        [normalized_transactions[i] EXCEPT !.financial_period_snapshot_id = NoId]]
      = <<GivenTransaction(DEBIT, 10050, <<1, 1>>, "Food"),
          GivenTransaction(DEBIT, 2000, <<1, 2>>, "Food")>>

\* C11: for the ledger of the example, the snapshot returned for January has
\* the single category spend Food / 120.50 / 2 transactions, total_outcome
\* 120.50, total_income 0 and savings -120.50.
C11_JanuaryFoodExample ==
    (IsFoodExample /\ returned.status = "returned" /\ returned.month = 1) =>
        /\ returned.value.categories_spends =
              <<[category |-> "Food", total_amount |-> 12050,
                 currency |-> "USD", transaction_count |-> 2]>>
        /\ returned.value.total_outcome = 12050
        /\ returned.value.total_income = 0
        /\ returned.value.savings = 0 - 12050

\* The categories of a list of category spends or of budget statuses.
CategoriesOf(list) == {list[i].category : i \in DOMAIN list}

\* The spend the loop sees last for a category.
LastSpendOf(category_spends, category) ==
    category_spends[CHOOSE i \in DOMAIN category_spends :
        /\ category_spends[i].category = category
        /\ \A j \in DOMAIN category_spends :
              category_spends[j].category = category => j <= i]

\* C12: the result has exactly one status per category of the input spends,
\* and none for any other category, whatever thresholds the user has.
C12_OneStatusPerSpend ==
    budget_call # NoCall =>
        /\ CategoriesOf(budget_call.result) = CategoriesOf(budget_call.category_spends)
        /\ Len(budget_call.result) = Cardinality(CategoriesOf(budget_call.category_spends))

\* The thresholds the query loads for the call, by what the query says.
LoadedFor(call) ==
    {b \in budget_thresholds :
        /\ b.user_id = call.user_id
        /\ b.is_active
        /\ DateLE(b.start_date, call.start_date)
        /\ b.end_date # NoDate /\ DateLE(call.end_date, b.end_date)}

\* C13: every input category spend has a status whose spent_amount is the
\* spend's total_amount; with a loaded threshold of the category the status
\* has its limit, remaining = limit - spent and is_overspent = (remaining
\* <= 0); with none, limit and remaining are absent and is_overspent is false.
C13_StatusFields ==
    budget_call # NoCall =>
        \A category \in CategoriesOf(budget_call.category_spends) :
            LET spend == LastSpendOf(budget_call.category_spends, category)
                matching == {b \in LoadedFor(budget_call) : b.category = category}
            IN \E i \in DOMAIN budget_call.result :
                  LET status == budget_call.result[i] IN
                  /\ status.category = category
                  /\ status.spent_amount = spend.total_amount
                  /\ matching = {} =>
                        /\ status.limit_amount = NoAmount
                        /\ status.remaining_amount = NoAmount
                        /\ status.is_overspent = FALSE
                  /\ matching # {} =>
                        \E b \in matching :
                            /\ status.limit_amount = SomeAmount(b.limit_amount)
                            /\ status.remaining_amount =
                                  SomeAmount(b.limit_amount - spend.total_amount)
                            /\ status.is_overspent =
                                  (b.limit_amount - spend.total_amount <= 0)

\* A threshold covers the call's period: it is the user's, active, started by
\* the period start and ends with the period end, later, or never.
Covers(b, call) ==
    /\ b.user_id = call.user_id
    /\ b.is_active
    /\ DateLE(b.start_date, call.start_date)
    /\ (b.end_date = NoDate \/ DateLE(call.end_date, b.end_date))

\* C14: a status has a limit (or is overspent) only by a threshold of its
\* category that covers the period, and an open-ended threshold that covers
\* the period is applied to the spend of its category.
C14_ThresholdApplies ==
    budget_call # NoCall =>
        /\ \A i \in DOMAIN budget_call.result :
              LET status == budget_call.result[i] IN
              (status.limit_amount # NoAmount \/ status.is_overspent) =>
                  \E b \in budget_thresholds :
                      /\ Covers(b, budget_call)
                      /\ b.category = status.category
                      /\ status.limit_amount = SomeAmount(b.limit_amount)
        /\ \A b \in budget_thresholds :
              (/\ Covers(b, budget_call)
               /\ b.end_date = NoDate
               /\ b.category \in CategoriesOf(budget_call.category_spends)) =>
                  \E i \in DOMAIN budget_call.result :
                      /\ budget_call.result[i].category = b.category
                      /\ budget_call.result[i].limit_amount # NoAmount

\* The tasks of call p whose two model calls both succeeded.
Succeeded(p) == {i \in DOMAIN loc[p].tasks : loc[p].tasks[i].pc = "returned"}

\* The normalized rows of raw transaction r, in the table after the step.
NormalizedOf(table, r) == {n \in DOMAIN table : table[n].raw_transaction_id = r}

C16_NothingToNormalize ==
    [][\A p \in Procs :
          (/\ pc[p] = "get_raw"
           /\ pc'[p] # pc[p]
           /\ get_user_raw_transactions(loc[p].user_id) = {})
          => (/\ pc'[p] = "idle"
              /\ returned' = Returned(0, "nothing to normalize", 0)
              /\ normalized_transactions' = normalized_transactions
              /\ raw_transactions' = raw_transactions)]_vars

\* C16 witness: with raw transactions of another user still to normalize, a
\* call for a user who has none returned 0.
C16_Witness ==
    /\ returned = Returned(0, "nothing to normalize", 0)
    /\ raw_transactions # <<>>
    /\ normalized_transactions = <<>>
    /\ \A p \in Procs : pc[p] = "idle"

\* C17: no raw transaction ever has two normalized transactions; a fetch
\* never returns a raw transaction that has one; and a call made when every
\* raw transaction of the user has one returns 0 and creates nothing.
C17_AtMostOnceNormalized ==
    [][/\ \A m, n \in DOMAIN normalized_transactions' :
             normalized_transactions'[m].raw_transaction_id
                 = normalized_transactions'[n].raw_transaction_id => m = n
       /\ \A p \in Procs :
             (pc[p] = "get_raw" /\ pc'[p] = "get_categories") =>
                 \A r \in Range(loc'[p].raw_transactions) :
                     NormalizedOf(normalized_transactions, r) = {}
       /\ \A p \in Procs :
             (/\ pc[p] = "get_raw"
              /\ pc'[p] # pc[p]
              /\ \A r \in DOMAIN raw_transactions :
                    raw_transactions[r].user_id = loc[p].user_id =>
                        NormalizedOf(normalized_transactions, r) # {})
             => (/\ returned'.status = "returned"
                 /\ returned'.value = 0
                 /\ normalized_transactions' = normalized_transactions)]_vars

\* C17 witness: both raw transactions are normalized and a later call
\* returned 0.
C17_Witness ==
    /\ Len(raw_transactions) = 2
    /\ Len(normalized_transactions) = 2
    /\ returned = Returned(0, "nothing to normalize", 0)
    /\ \A p \in Procs : pc[p] = "idle"

\* C18: every normalized transaction the pipeline builds or has inserted has
\* resolved_category = predicted_category and recurrence_status unknown.
C18_ResolvedIsPredicted ==
    /\ \A n \in DOMAIN normalized_transactions :
          /\ normalized_transactions[n].resolved_category
                = normalized_transactions[n].predicted_category
          /\ normalized_transactions[n].recurrence_status = UNKNOWN
    /\ \A p \in Procs :
          pc[p] = "gather" =>
              \A i \in Succeeded(p) :
                  /\ loc[p].tasks[i].value.resolved_category
                        = loc[p].tasks[i].value.predicted_category
                  /\ loc[p].tasks[i].value.recurrence_status = UNKNOWN

\* C18 witness: a normalized transaction categorized with confidence 0 into a
\* category outside the vocabulary.
C18_Witness ==
    \E n \in DOMAIN normalized_transactions :
        /\ normalized_transactions[n].category_confidence = 0
        /\ normalized_transactions[n].predicted_category = "Travel_MISSING"

\* The invoke_structured calls that have started and not finished.
InFlight == {i \in DOMAIN task : task[i].pc = "invoking"}

\* C19: at every moment at most max_concurrent invoke_structured calls are
\* in flight and no request has been invoked twice; and unless some request
\* fails, eventually every request has been invoked once and has returned.
C19_BoundedConcurrency ==
    /\ [](/\ Cardinality(InFlight) <= max_concurrent
          /\ \A i \in DOMAIN task : task[i].invocations <= 1)
    /\ <>(\/ \E i \in DOMAIN task : task[i].pc = "raised"
          \/ \A i \in DOMAIN task :
                task[i].invocations = 1 /\ task[i].pc = "returned")

\* C19 witness: max_concurrent calls are in flight and a request waits.
C19_Witness ==
    /\ Cardinality(InFlight) = max_concurrent
    /\ max_concurrent > 1
    /\ \E i \in DOMAIN task : task[i].pc = "waiting"

\* C20: the list the batch returns has one element per request, the i-th
\* being the result of the i-th request, whatever the completion order.
C20_RequestOrder ==
    gathered.status = "returned" =>
        /\ Len(gathered.value) = Len(requests)
        /\ \A i \in DOMAIN requests : gathered.value[i] = ResponseOf(requests[i])

\* C20 witness: the batch returned although the second request, which
\* differs from the first, completed first.
C20_Witness ==
    /\ gathered.status = "returned"
    /\ Len(requests) >= 2
    /\ requests[1] # requests[2]
    /\ completed[1] = 2


\* C21: when a request of the batch has failed, what the caller of
\* batch_invoke_structured gets is that failure, the error of the request
\* that failed first, and no list of results, partial or whole.
C21_FailureAbortsBatch ==
    (gathered # NoGather /\ \E i \in DOMAIN task : task[i].pc = "raised") =>
        /\ gathered.status = "raised"
        /\ "value" \notin DOMAIN gathered
        /\ task[gathered.error].pc = "raised"
        /\ \A k \in DOMAIN completed :
              task[completed[k]].pc = "raised" =>
                  \E j \in 1..k : completed[j] = gathered.error

\* C21 witness: the batch raised the error of a request although another
\* request had returned its result before and a third one was still waiting.
C21_Witness ==
    /\ gathered.status = "raised"
    /\ \E i, j, k \in DOMAIN task :
          /\ task[i].pc = "returned"
          /\ task[j].pc = "raised"
          /\ task[k].pc \in {"waiting", "invoking"}
          /\ completed = <<i, j>>


\* The calls that have ended.
Done == {c \in Calls : invoke[c].pc = "done"}

\* C22: every invoke_structured or invoke_raw call that has ended appended
\* exactly one metric entry, however many attempts the client made: an entry
\* with success = true when the call returned a value, an entry with
\* success = false and the type of the raised error when the call failed; and
\* the collector holds no other entry.
C22_OneMetricPerCall ==
    /\ Len(metrics) = Cardinality(Done)
    /\ \A c \in Done :
          /\ Len(invoke[c].entries) = 1
          /\ LET m == metrics[invoke[c].entries[1]]
             IN IF invoke[c].outcome.status = "returned"
                THEN m.success
                ELSE ~m.success /\ m.error_type = invoke[c].outcome.error


\* The provider requests a call has issued.
ProviderRequests(c) ==
    {k \in DOMAIN invoke[c].attempts : invoke[c].attempts[k] # "no_request"}

\* C23: a call of complete or complete_structured makes at most 3 attempts
\* and so at most 3 provider requests; each failed first or second attempt
\* is followed by one wait, of 2 to 10 seconds; an attempt that succeeds is
\* the last one and ends the call with the provider's result; a third failed
\* attempt ends the call with the client's terminal error (tenacity's
\* RetryError); and every call that reached the client ends.
C23_BoundedRetries ==
    /\ [](\A c \in Calls :
            LET a == invoke[c].attempts
                w == invoke[c].waits
            IN /\ Len(a) <= 3
               /\ Cardinality(ProviderRequests(c)) <= 3
               /\ \A k \in DOMAIN w : 2 <= w[k] /\ w[k] <= 10
               /\ Len(w) = Cardinality({k \in DOMAIN a :
                                           k < 3 /\ a[k] # "answered"})
               /\ \A k \in DOMAIN a :
                     a[k] = "answered" =>
                         /\ k = Len(a)
                         /\ invoke[c].pc = "done"
                         /\ invoke[c].completion =
                               [status |-> "returned",
                                value |-> ResponseOf([prompt_key |-> invoke[c].prompt_key])]
               /\ (Len(a) = 3 /\ a[3] # "answered") =>
                     /\ invoke[c].pc = "done"
                     /\ invoke[c].completion =
                           [status |-> "raised", error |-> "RetryError"])
    /\ \A c \in Calls : (invoke[c].pc = "attempt") ~> (invoke[c].pc = "done")

\* C23 witness: a call ended with the result of its third attempt, after two
\* provider failures and two waits of 2 seconds.
C23_Witness ==
    \E c \in Done :
        /\ invoke[c].attempts = <<"failed", "failed", "answered">>
        /\ invoke[c].waits = <<2, 2>>
        /\ invoke[c].completion.status = "returned"


\* The prompt of call c, or its system prompt, cannot be resolved with the
\* variables given: a key is not registered, or the template has a variable
\* that was not given.
Unresolvable(c) ==
    \/ invoke[c].prompt_key \notin DOMAIN Templates
    \/ /\ invoke[c].prompt_key \in DOMAIN Templates
       /\ Templates[invoke[c].prompt_key].reads # "nothing"
       /\ "transaction" \notin invoke[c].variables
    \/ /\ invoke[c].system_prompt_key # None
       /\ invoke[c].system_prompt_key \notin DOMAIN Templates

\* The exceptions of a failed template resolution.
TemplateResolutionError == {"KeyError", "ValueError", "UndefinedError"}

\* C24: an invoke_structured call whose prompt or system prompt cannot be
\* resolved ends at once with a template resolution error, without a
\* provider request, having appended exactly one metric entry, a failure
\* with zero input and output tokens.
C24_TemplateFailure ==
    \A c \in Calls :
        (invoke[c].pc # "idle" /\ invoke[c].kind = "structured" /\ Unresolvable(c)) =>
            /\ invoke[c].pc = "done"
            /\ invoke[c].attempts = <<>>
            /\ invoke[c].outcome.status = "raised"
            /\ invoke[c].outcome.error \in TemplateResolutionError
            /\ Len(invoke[c].entries) = 1
            /\ LET m == metrics[invoke[c].entries[1]]
               IN ~m.success /\ m.input_tokens = 0 /\ m.output_tokens = 0


RECURSIVE SumInputOutputTokens(_, _)
SumInputOutputTokens(ms, indices) ==
    IF indices = {} THEN 0
    ELSE LET i == CHOOSE i \in indices : TRUE
         IN ms[i].input_tokens + ms[i].output_tokens
            + SumInputOutputTokens(ms, indices \ {i})

\* The entries of a list of metric entries that record a success.
Successes(ms) == {i \in DOMAIN ms : ms[i].success}

\* C25: the summary get_metrics_summary returns has total_calls = the number
\* of recorded entries, successful_calls = the number of entries with
\* success = true, success_rate = successful_calls / total_calls (0 with no
\* entry) and total_tokens = the sum of the entries' input and output tokens;
\* one failure and one success recorded give 2, 1 and 1/2.
C25_Summary ==
    [][summary' # summary =>
          /\ summary'.total_calls = Len(metrics)
          /\ summary'.successful_calls = Cardinality(Successes(metrics))
          /\ summary'.success_rate[2] > 0
          /\ IF Len(metrics) = 0
             THEN summary'.success_rate = <<0, 1>>
             ELSE summary'.success_rate[1] * Len(metrics)
                      = Cardinality(Successes(metrics)) * summary'.success_rate[2]
          /\ summary'.total_tokens = SumInputOutputTokens(metrics, DOMAIN metrics)
          /\ (Len(metrics) = 2 /\ Cardinality(Successes(metrics)) = 1) =>
                 /\ summary'.total_calls = 2
                 /\ summary'.successful_calls = 1
                 /\ summary'.success_rate = <<1, 2>>]_vars

\* C25 witness: the summary of one failed and one successful call, the
\* successful one with tokens.
C25_Witness ==
    /\ summary # NoSummary
    /\ summary.total_calls = 2
    /\ summary.successful_calls = 1
    /\ summary.success_rate = <<1, 2>>
    /\ summary.total_tokens > 0
    /\ Len(metrics) = 2


\* The provider answered the last request of call c.
Answered(c) ==
    /\ invoke[c].attempts # <<>>
    /\ invoke[c].attempts[Len(invoke[c].attempts)] = "answered"

\* C26: the cost estimate never makes the recording of a call raise.  A call
\* whose provider request was answered returns the answer and has appended
\* its entry, whose cost is zero for an unset provider and, for a model the
\* provider's price table does not list, the cost at the provider's default
\* prices or zero.
C26_PricingNeverRaises ==
    \A c \in Done :
        (invoke[c].kind = "structured" /\ Answered(c)) =>
            /\ invoke[c].outcome = invoke[c].completion
            /\ Len(invoke[c].entries) = 1
            /\ LET m == metrics[invoke[c].entries[1]]
               IN /\ m.success
                  /\ config.provider \notin LLMProvider => m.cost_usd = 0
                  /\ (config.provider = OPENAI /\ config.model_name = "llama3") =>
                        m.cost_usd = 0
                  /\ config.provider = OLLAMA => m.cost_usd = 0


\* C29: once all the concurrent calls have ended, the Metrics Collector
\* holds exactly one entry per call: each call appended one entry, no two
\* calls share an entry and the list has no other entry, whatever the
\* interleaving of the calls at their awaits.
C29_ConcurrentAppends ==
    (Done = Calls /\ \A c \in Calls : invoke[c].kind = "structured") =>
        /\ Len(metrics) = NumCalls
        /\ \A c \in Calls : Len(invoke[c].entries) = 1
        /\ \A c, d \in Calls : c # d => invoke[c].entries # invoke[d].entries


\* The text has no brace: neither strict parsing nor the extraction of a
\* brace-delimited substring can give an object.
NoBrace(text) == \A i \in DOMAIN text : text[i] \notin {"{", "}"}

\* C27: parse_with_fallback raises for no text and no response type; the
\* caller's default factory is used only when given, and a text that cannot
\* give an object (no brace in it: no JSON, or JSON that is no object) ends
\* in the last tier, with the factory's value when a factory is given and
\* with the minimal instance of the type's defaults when none is.
C27_NeverRaises ==
    parser.reconciled # NoValue =>
        /\ parser.reconciled.status = "returned"
        /\ parser.reconciled.value = FactoryValue => parser.default_factory # None
        /\ NoBrace(LlmOutput) =>
              parser.reconciled.value =
                  IF parser.default_factory # None THEN FactoryValue
                  ELSE <<"unknown">>


\* C28: for a JSON object text that conforms to the response type (parse
\* returns a value for it), parse of the text between code fences, tagged
\* json or not, with or without prose before and after, returns the same
\* value.
C28_FencedRoundTrip ==
    (/\ parser.fence # "none"
     /\ parser.parsed_bare # NoValue
     /\ parser.parsed # NoValue
     /\ parser.parsed_bare.status = "returned") =>
        parser.parsed = parser.parsed_bare


\* Invocation p commits the update of the snapshot it had loaded.
CommitsUpdate(p) ==
    /\ pc[p] = "write"
    /\ pc'[p] = "idle"
    /\ returned'.status = "returned"
    /\ loc[p].loaded # NoSnapshot

\* The attributes of a snapshot row an update may change.
UpdatedAttributes ==
    {"total_income", "total_outcome", "savings", "savings_rate",
     "categories_spends", "budgets_statuses", "computed_at"}

\* C30: a call that updates an existing snapshot adds and removes no
\* snapshot row, leaves the other rows as they are, changes of the updated
\* row only the totals, savings, savings rate, category spend, budget status
\* and computed_at (id, user_id, period, start_date, end_date and created_at
\* stay), and leaves every link that was set as it was.
C30_UpdateFrame ==
    [][\A p \in Procs :
          CommitsUpdate(p) =>
              /\ Cardinality(snapshots') = Cardinality(snapshots)
              /\ \A s \in snapshots :
                    \E s2 \in snapshots' :
                        /\ s2.id = s.id
                        /\ s.id # loc[p].loaded.id => s2 = s
                        /\ \A c \in DOMAIN s \ UpdatedAttributes : s2[c] = s[c]
              /\ \A i \in DOMAIN normalized_transactions :
                    normalized_transactions[i].financial_period_snapshot_id # NoId =>
                        normalized_transactions'[i].financial_period_snapshot_id
                            = normalized_transactions[i].financial_period_snapshot_id]_vars

\* C30 witness: a call updated the snapshot of January, which already had a
\* linked transaction, with a second transaction.
C30_Witness ==
    /\ returned.status = "returned"
    /\ returned.path = "recalculated"
    /\ Cardinality(snapshots) = 1
    /\ Len(normalized_transactions) = 2
    /\ \A i \in DOMAIN normalized_transactions :
          normalized_transactions[i].financial_period_snapshot_id # NoId
    /\ \E s \in snapshots : s.computed_at > s.created_at


\* The date cells that write a calendar date as YYYY-MM-DD or MM/DD/YYYY and
\* the amount cells that write a decimal number.
ValidDateCells ==
    {<<YearToken, "-", m, "-", d>> :
        m \in {t \in DOMAIN NumberOf : NumberOf[t] <= 12},
        d \in DOMAIN NumberOf}
    \cup {<<m, "/", d, "/", YearToken>> :
        m \in {t \in DOMAIN NumberOf : NumberOf[t] <= 12},
        d \in DOMAIN NumberOf}
ValidAmountCells ==
    {<<n>> : n \in DOMAIN CentsOf} \cup {<<sign, n>> : sign \in {"-", "+"}, n \in DOMAIN CentsOf}
ValidRow(row) ==
    /\ row.Date \in ValidDateCells
    /\ IsCalendarDate(NumberOf[IF row.Date[2] = "-" THEN row.Date[3] ELSE row.Date[1]],
                      NumberOf[IF row.Date[2] = "-" THEN row.Date[5] ELSE row.Date[3]])
    /\ row.Amount \in ValidAmountCells
RowsOf(transactions) == [i \in DOMAIN transactions |-> transactions[i].raw_data]

\* C31: parse_transactions returns, for any file, one RawTransaction per row
\* with a date and an amount that parse, in file order; a row without one
\* neither aborts the parse nor removes another row.
C31_SkipsInvalidRows ==
    upload.parsed # NoValue =>
        /\ upload.parsed.status = "returned"
        /\ RowsOf(upload.parsed.value) = SelectSeq(upload.file_content, ValidRow)


\* The request has been answered in this step.
Answers == upload.response = NoValue /\ upload'.response # NoValue

\* C32: an upload of an unsupported file type, or of a file without a valid
\* row, is answered BAD_REQUEST; only an upload answered CREATED changes the
\* stored raw transactions, and it appends exactly one transaction per valid
\* row and reports their number.
C32_StoresOnlyOnSuccess ==
    [][Answers =>
          LET response == upload'.response
              valid == SelectSeq(upload.file_content, ValidRow)
          IN /\ (GetParserRaises(upload.filename) \/ valid = <<>>) =>
                    response.status_code = BAD_REQUEST
             /\ response.status_code # CREATED => raw_transactions' = raw_transactions
             /\ response.status_code = CREATED =>
                    /\ Len(raw_transactions') = Len(raw_transactions) + Len(valid)
                    /\ SubSeq(raw_transactions', 1, Len(raw_transactions)) = raw_transactions
                    /\ RowsOf(SubSeq(raw_transactions', Len(raw_transactions) + 1,
                                     Len(raw_transactions'))) = valid
                    /\ response.count = Len(valid)]_vars


\* Invocation p returns a snapshot in this step, and no transaction was
\* inserted after it read the unlinked transactions.
ReturnsUpToDate(p) ==
    /\ pc[p] # "idle"
    /\ pc'[p] = "idle"
    /\ returned'.status = "returned"
    /\ ~inserted_since'

\* C33: when a call for a month returns, every transaction of the user dated
\* in that month, from its first to its last day, is linked to a snapshot.
C33_WholeMonthLinked ==
    [][\A p \in Procs :
          ReturnsUpToDate(p) =>
              \A i \in DOMAIN normalized_transactions' :
                  (/\ normalized_transactions'[i].user_id = UserId
                   /\ normalized_transactions'[i].date[1] = returned'.month) =>
                      normalized_transactions'[i].financial_period_snapshot_id # NoId]_vars


\* The tasks of the pipeline invocations that are at their gather.
ChainsOf(p) == IF pc[p] = "gather" THEN DOMAIN loc[p].tasks ELSE {}

\* C34: every chain makes at most two model calls, the normalization call
\* first; a categorization call is made only after the chain's normalization
\* call returned, and with the transaction that call returned; a chain whose
\* normalization call raised has made that one call, has raised and has no
\* normalized record.
C34_SequentialCalls ==
    \A p \in Procs :
        \A i \in ChainsOf(p) :
            LET t == loc[p].tasks[i]
                raw == raw_transactions[loc[p].raw_transactions[i]]
            IN /\ Len(t.calls) <= 2
               /\ t.calls # <<>> =>
                     /\ t.calls[1].prompt_key = "normalize_transaction_user"
                     /\ t.calls[1].transaction = RawDump(raw)
               /\ Len(t.calls) = 2 =>
                     /\ t.calls[2].prompt_key = "categorize_transaction_user"
                     /\ t.calls[1].outcome = "returned"
                     /\ \E output \in NormalizationOutputs(raw) :
                           /\ RawTransactionModel(raw.type, output).status = "returned"
                           /\ t.calls[2].transaction
                                 = RawTransactionModel(raw.type, output).value
               /\ (t.calls # <<>> /\ t.calls[1].outcome = "raised") =>
                     /\ Len(t.calls) = 1
                     /\ t.pc = "raised"
                     /\ t.value = NoValue
               /\ t.pc = "returned" =>
                     /\ Len(t.calls) = 2
                     /\ t.calls[2].outcome = "returned"
                     /\ t.value.amount
                           = (IF t.calls[2].transaction.amount # None
                              THEN t.calls[2].transaction.amount ELSE "0.0")

\* C34 witness: of two chains of one invocation, one raised at its
\* normalization call and the other made its categorization call with a
\* normalized transaction that differs from the raw one.
C34_Witness ==
    \E p \in Procs :
        \E i, j \in ChainsOf(p) :
            /\ loc[p].tasks[i].calls # <<>>
            /\ loc[p].tasks[i].calls[1].outcome = "raised"
            /\ Len(loc[p].tasks[j].calls) = 2
            /\ loc[p].tasks[j].calls[2].transaction
                  # loc[p].tasks[j].calls[1].transaction


\* The normalization output gives no value for the field.
Omits(output, key) == key \notin DOMAIN output \/ output[key] = Null
Defaults == [amount |-> "0.0", date |-> Today, currency |-> "USD", raw_category |-> ""]

\* C35: whatever fields of amount, date, currency and raw_category the
\* normalization output omits, the chain returns a normalized transaction; a
\* field that was omitted has its default (0, today, "USD", "") and a field
\* that was given has the value given.
C35_OmittedFieldsDefaulted ==
    (chain # NoChain /\ chain.result # NoValue) =>
        /\ chain.result.status = "returned"
        /\ \A key \in RawTransactionFields :
              chain.result.value[key]
                  = (IF Omits(chain.output, key) THEN Defaults[key] ELSE chain.output[key])


\* C36: neither the pipeline nor the Snapshot Engine modifies or deletes a
\* raw transaction: every step of normalize_and_categorize_raw_transactions
\* and of get_up_to_date_snapshot, model calls that fail included, leaves the
\* rows of RAW_TRANSACTION and all their fields as they were.
C36_RawTransactionsUnchanged == [][raw_transactions' = raw_transactions]_vars

\* A row the pipeline stored has been linked by a snapshot call, and a later
\* pipeline call holds a task whose model call failed.
C36_Witness ==
    /\ raw_transactions # <<>>
    /\ \E i \in DOMAIN normalized_transactions :
          /\ normalized_transactions[i].raw_transaction_id \in DOMAIN raw_transactions
          /\ normalized_transactions[i].financial_period_snapshot_id # NoId
    /\ pc[1] = "gather"
    /\ \E i \in DOMAIN loc[1].tasks : loc[1].tasks[i].pc = "raised"


\* C37: the normalized rows of an invocation are stored by one bulk write
\* made when every chain of the invocation has finished, and the write is
\* all or nothing: it stores one row for each chain that succeeded, or, when
\* it is refused, no row at all.  No other step of the pipeline stores a row,
\* and whatever invocations overlap, no raw transaction ever has two
\* normalized rows.
C37_AllOrNothingBulkWrite ==
    [][LET before == Len(normalized_transactions)
           added == {n \in DOMAIN normalized_transactions' : n > before}
       IN
       /\ \A m, n \in DOMAIN normalized_transactions' :
             normalized_transactions'[m].raw_transaction_id
                 = normalized_transactions'[n].raw_transaction_id => m = n
       /\ Len(normalized_transactions') >= before
       /\ \A n \in DOMAIN normalized_transactions :
             normalized_transactions'[n] = normalized_transactions[n]
       /\ added # {} =>
             \E p \in Procs :
                /\ pc[p] = "gather"
                /\ pc'[p] = "idle"
                /\ \A i \in DOMAIN loc[p].tasks :
                      loc[p].tasks[i].pc \in {"returned", "raised"}
                /\ Cardinality(added) = Cardinality(Succeeded(p))
                /\ \A i \in Succeeded(p) :
                      \E n \in added :
                         normalized_transactions'[n].raw_transaction_id
                             = loc[p].raw_transactions[i]
       /\ \A p \in Procs :
             (pc[p] = "gather" /\ pc'[p] = "idle" /\ added = {}) =>
                 \/ Succeeded(p) = {}
                 \/ returned' = Raised(0, "IntegrityError")]_vars

\* C37 witness: two overlapping invocations categorized the same raw
\* transaction; the first write stored its row and the second write was
\* refused as a whole, so one of the two raw transactions has a row.
C37_Witness ==
    /\ returned = Raised(0, "IntegrityError")
    /\ Len(raw_transactions) = 2
    /\ Len(normalized_transactions) = 1
    /\ \A p \in Procs : pc[p] = "idle"


\* C38: the failure of one request of a batch cancels no other request:
\* once a batch that raised has quiesced, every one of its N requests has
\* run its invoke_structured call once, has left the semaphore, and has
\* recorded its own metric entry, so the Metrics Collector holds N entries.
C38_FailedBatchRecordsAll ==
    (/\ gathered.status = "raised"
     /\ \A i \in DOMAIN task : task[i].pc \in {"returned", "raised"})
    => (/\ \A i \in DOMAIN task : task[i].invocations = 1
        /\ semaphore = max_concurrent
        /\ Len(metrics) = Len(requests))


\* The conversation a handle_message call names is stored and is closed: its
\* status is not ACTIVE or its turns are used up.
Closed(conversation_id) ==
    /\ conversation_id \in DOMAIN conversations
    /\ \/ conversations[conversation_id].status # ACTIVE
       \/ conversations[conversation_id].turn_count
             >= conversations[conversation_id].max_turns

C40_OneUpdatePerCall ==
    (handling.pc = "done" /\ handling.loaded) =>
        LET stored == conversations[handling.conversation.conversation_id] IN
        /\ Len(handling.updates) = 1
        /\ handling.conversation.conversation_id \in DOMAIN conversations
        /\ stored.turn_count = handling.turn_count + 1
        /\ stored.status = handling.updates[1]
        /\ stored.status =
              IF handling.intent = INTENT_UNKNOWN THEN ACTIVE
              ELSE IF handling.intent_handler = None THEN COMPLETED_ERROR
              ELSE IF handling.success THEN COMPLETED_SUCCESS
              ELSE COMPLETED_ERROR
        /\ (handling.intent # INTENT_UNKNOWN /\ handling.intent_handler = None) =>
              /\ handling.outcome =
                    [status |-> "returned",
                     value |-> _prepare_system_message(
                                   handling.conversation_id, NoHandlerText)]
              /\ "prepare_intent_data" \notin Range(handling.calls)
              /\ "run_intent" \notin Range(handling.calls)

====
